---- MODULE Spec2Model ----
(***************************************************************************)
(* A model of the ray tracer's light transport (src/src/world.rs), of the  *)
(* intersection collection (src/src/intersection.rs) and of the shapes     *)
(* (src/src/shapes/).                                                      *)
(*                                                                         *)
(* Reals are fixed-point integers: Scale grid units stand for 1.0.  Every  *)
(* f64 operation of the source is the same operation on the grid, rounded  *)
(* to the nearest grid value.  Colors keep one channel: every Color        *)
(* operation of the source acts on the three channels alike.  Rays live    *)
(* in the plane x = 0 and transforms are translations along y, so that an  *)
(* inverse transform is exact on the grid.                                 *)
(***************************************************************************)
EXTENDS Integers, Sequences, FiniteSets, TLC

VARIABLES
    world,      \* World { objects, light }
    stack,      \* the call stack of color_at / shade_hit / reflected_color / refracted_color
    ret,        \* the value a callee has just returned to the frame below it
    top,        \* the operation called from outside, with its arguments
    result,     \* what the outside call returned
    done,       \* the call that returned last, with what it did
    calls,      \* invocations since the outside call: color_at, shade_hit, is_shadowed
    xs,         \* the Intersections value built last by Intersections::new
    probe,      \* the last call of World::intersections: its ray, per-shape lists, result
    shadow,     \* the last call of World::is_shadowed: its point, intersections, result
    scene,      \* the Shape, Pattern and Camera under construction, and what failed
    render,     \* a call of Camera::render or render_with_progress in progress
    solve,      \* the Ray built last, and the hits a local_intersect returned for it
    sample      \* the Material, Pattern, Matrix or Canvas operation made last

vars == <<world, stack, ret, top, result, done, calls, xs, probe, shadow,
          scene, render, solve, sample>>

----------------------------------------------------------------------------
(* Bounds of the model *)

\* largest depth budget handed to color_at from outside
MaxDepth == 3
\* longest list handed to Intersections::new
MaxLen == 3
\* largest |t| on a list handed to Intersections::new
MaxT == 2
\* largest number of pixels, hsize * vsize, of a rendered canvas
MaxPixels == 4
\* largest number of pixels the thread pool evaluates at the same time
MaxThreads == 2
\* largest number of builder and mutator calls on one Shape or Pattern
MaxCalls == 3
\* largest number of patterns built before one of them is sampled
MaxNodes == 2
\* largest width and height of a canvas that is written to
MaxSide == 3
\* longest run of pixels of one color in a canvas that is printed
MaxRun == 5

----------------------------------------------------------------------------
(* Fixed-point arithmetic *)

Scale == 10 * 10

\* utils.rs: pub const EPSILON: f64 = 1e-5; here two grid steps, so that one grid
\* step is a non-zero value below it
EPSILON == 2

Abs(a) == IF a < 0 THEN -a ELSE a

Sign(a) == IF a < 0 THEN -1 ELSE 1

\* n / d rounded to the nearest integer, halves away from zero; d # 0
RDiv(n, d) == Sign(n) * Sign(d) * ((2 * Abs(n) + Abs(d)) \div (2 * Abs(d)))

\* f64 multiplication
FMul(a, b) == RDiv(a * b, Scale)

\* f64 NaN, the value of 0.0 / 0.0: a value outside the grid
NaN == -(2 ^ 30) - 1

\* f64 infinity, the value of a / 0.0 for a > 0
Infinity == 2 ^ 30

\* f64 division
FDiv(a, b) ==
    IF b # 0 THEN RDiv(a * Scale, b)
    ELSE IF a = 0 THEN NaN
    ELSE IF a > 0 THEN Infinity ELSE -Infinity

\* f64 <=, false when either side is NaN
FLe(a, b) == a # NaN /\ b # NaN /\ a <= b

\* f64 >, false when either side is NaN
FGt(a, b) == a # NaN /\ b # NaN /\ a > b

RECURSIVE IsqrtIn(_, _, _)
IsqrtIn(n, lo, hi) ==
    IF lo >= hi THEN lo
    ELSE LET mid == (lo + hi + 1) \div 2
         IN  IF mid * mid <= n THEN IsqrtIn(n, mid, hi) ELSE IsqrtIn(n, lo, mid - 1)

\* f64::sqrt of a >= 0
FSqrt(a) == IsqrtIn(a * Scale, 0, 40000)

RECURSIVE FPowi(_, _)
\* f64::powf with a whole exponent, by squaring
FPowi(a, n) ==
    IF n = 0 THEN Scale
    ELSE LET h == FPowi(a, n \div 2)
             sq == FMul(h, h)
         IN  IF n % 2 = 0 THEN sq ELSE FMul(sq, a)

----------------------------------------------------------------------------
(* Point and Vector *)

Vec(x, y, z) == [x |-> x, y |-> y, z |-> z]

ORIGIN == Vec(0, 0, 0)

VAdd(p, v) == Vec(p.x + v.x, p.y + v.y, p.z + v.z)

VSub(p, q) == Vec(p.x - q.x, p.y - q.y, p.z - q.z)

VNeg(v) == Vec(-v.x, -v.y, -v.z)

VScale(v, k) == Vec(FMul(v.x, k), FMul(v.y, k), FMul(v.z, k))

Dot(v, w) == RDiv(v.x * w.x + v.y * w.y + v.z * w.z, Scale)

Magnitude(v) == IsqrtIn(v.x * v.x + v.y * v.y + v.z * v.z, 0, 40000)

Normalize(v) ==
    LET m == Magnitude(v)
    IN  Vec(FDiv(v.x, m), FDiv(v.y, m), FDiv(v.z, m))

\* Vector::reflect: self - normal * 2 * self.dot(normal)
Reflect(v, n) == VSub(v, VScale(n, 2 * Dot(v, n)))

----------------------------------------------------------------------------
(* Matrix<N>: a tuple of N rows of N grid values, indexed from 1 *)

\* Matrix::ZERO
ZeroMatrix == [r \in 1..4 |-> [c \in 1..4 |-> 0]]

\* Matrix::identity
Identity == [r \in 1..4 |-> [c \in 1..4 |-> IF r = c THEN Scale ELSE 0]]

\* the translation by (x, y, z)
Translation(x, y, z) ==
    <<<<Scale, 0, 0, x>>, <<0, Scale, 0, y>>, <<0, 0, Scale, z>>, <<0, 0, 0, Scale>>>>

\* the scaling by (x, y, z)
Scaling(x, y, z) ==
    <<<<x, 0, 0, 0>>, <<0, y, 0, 0>>, <<0, 0, z, 0>>, <<0, 0, 0, Scale>>>>

\* Matrix<3>::submatrix and Matrix<4>::submatrix: m without one row and one column
Submatrix(m, row, col) ==
    [i \in 1..(Len(m) - 1) |->
        [j \in 1..(Len(m) - 1) |->
            m[IF i < row THEN i ELSE i + 1][IF j < col THEN j ELSE j + 1]]]

RECURSIVE Determinant(_)
\* Matrix<2>::determinant, and the expansion along the first row of Matrix<3> and
\* Matrix<4>::determinant; cofactor = sign * minor
Determinant(m) ==
    IF Len(m) = 2
    THEN FMul(m[1][1], m[2][2]) - FMul(m[1][2], m[2][1])
    ELSE LET term(col) ==
                 FMul(m[1][col],
                      (IF (1 + col) % 2 = 0 THEN 1 ELSE -1)
                          * Determinant(Submatrix(m, 1, col)))
         IN  IF Len(m) = 3 THEN term(1) + term(2) + term(3)
             ELSE term(1) + term(2) + term(3) + term(4)

\* Matrix<4>::cofactor
Cofactor(m, row, col) ==
    (IF (row + col) % 2 = 0 THEN 1 ELSE -1) * Determinant(Submatrix(m, row, col))

\* Matrix<4>::inverse: the assert! panics on a zero determinant, otherwise the
\* transposed cofactors over the determinant
MatrixInverse(m) ==
    LET det == Determinant(m)
    IN  IF det = 0 THEN [panic |-> TRUE, m |-> ZeroMatrix]
        ELSE [panic |-> FALSE,
              m |-> [col \in 1..4 |-> [row \in 1..4 |-> FDiv(Cofactor(m, row, col), det)]]]

\* Matrix * Matrix
MatMul(m, other) ==
    [r \in 1..4 |-> [c \in 1..4 |->
        FMul(m[r][1], other[1][c]) + FMul(m[r][2], other[2][c])
            + FMul(m[r][3], other[3][c]) + FMul(m[r][4], other[4][c])]]

\* Matrix<4> * Point: the implicit fourth coordinate is 1
MulPoint(m, p) ==
    Vec(FMul(m[1][1], p.x) + FMul(m[1][2], p.y) + FMul(m[1][3], p.z) + m[1][4],
        FMul(m[2][1], p.x) + FMul(m[2][2], p.y) + FMul(m[2][3], p.z) + m[2][4],
        FMul(m[3][1], p.x) + FMul(m[3][2], p.y) + FMul(m[3][3], p.z) + m[3][4])

\* a variant of Matrix<4> * Vector that takes the fourth coordinate to be 1
MulVectorWithOne(m, v) == MulPoint(m, v)

\* Matrix<4> * Vector: the implicit fourth coordinate is 0
MulVector(m, v) ==
    Vec(FMul(m[1][1], v.x) + FMul(m[1][2], v.y) + FMul(m[1][3], v.z),
        FMul(m[2][1], v.x) + FMul(m[2][2], v.y) + FMul(m[2][3], v.z),
        FMul(m[3][1], v.x) + FMul(m[3][2], v.y) + FMul(m[3][3], v.z))

----------------------------------------------------------------------------
(* Ray *)

Ray(origin, direction) == [origin |-> origin, direction |-> direction]

Position(ray, t) == VAdd(ray.origin, VScale(ray.direction, t))

\* Matrix<4> * Point for the translation by (0, ty, 0): the implicit w = 1
TranslatePoint(ty, p) == Vec(p.x, p.y + ty, p.z)

\* Matrix<4> * Vector for the translation by (0, ty, 0): the implicit w = 0
TranslateVector(ty, v) == v

RayTransform(ray, ty) ==
    Ray(TranslatePoint(ty, ray.origin), TranslateVector(ty, ray.direction))

----------------------------------------------------------------------------
(* Material and Shape *)

BLACK == 0

WHITE == Scale

\* Material::default(), with the reflective, transparency and refractive_index
\* fields that world.rs reads
DefaultMaterial ==
    [color |-> WHITE, ambient |-> 10, diffuse |-> 90, specular |-> 90,
     shininess |-> 200, reflective |-> 0, transparency |-> 0,
     refractive_index |-> Scale]

\* Shape::sphere() / Shape::plane(): identity transform, default material.
\* A transform is the translation by (0, ty, 0), kept as ty.
NewShape(geom) ==
    [geom |-> geom, transform |-> 0, inverse_transform |-> 0,
     material |-> DefaultMaterial]

\* Transformation::inverse of the translation by (0, ty, 0)
Inverse(ty) == -ty

WithTransform(shape, ty) ==
    [shape EXCEPT !.transform = ty, !.inverse_transform = Inverse(ty)]

WithMaterial(shape, m) == [shape EXCEPT !.material = m]

\* Sphere::local_intersect: <<>> for None, <<lo, hi>> for Some((lo, hi))
SphereLocalIntersect(ray_obj) ==
    LET sphere_to_ray == VSub(ray_obj.origin, ORIGIN)
        a == Dot(ray_obj.direction, ray_obj.direction)
        b == 2 * Dot(ray_obj.direction, sphere_to_ray)
        c == Dot(sphere_to_ray, sphere_to_ray) - Scale
        discriminant == FMul(b, b) - 4 * FMul(a, c)
    IN  IF discriminant < 0 THEN <<>>
        ELSE LET sqrt_disc == FSqrt(discriminant)
                 q == IF b < 0 THEN RDiv(-b + sqrt_disc, 2)
                               ELSE RDiv(-b - sqrt_disc, 2)
                 t1 == FDiv(q, a)
                 t2 == FDiv(c, q)
             IN  IF FLe(t1, t2) THEN <<t1, t2>> ELSE <<t2, t1>>

\* a variant of Plane::local_intersect that takes only a level ray for parallel
PlaneParallelOnlyIfLevel(ray) ==
    IF ray.direction.y = 0 THEN <<>>
    ELSE <<FDiv(-ray.origin.y, ray.direction.y)>>

\* Plane::local_intersect: <<>> for LocalHits::None, <<t>> for LocalHits::One(t)
PlaneLocalIntersect(ray) ==
    IF Abs(ray.direction.y) < EPSILON THEN <<>>
    ELSE <<FDiv(-ray.origin.y, ray.direction.y)>>

\* LocalHits::iter: the hits in the order the variant holds them
LocalHitsIter(hits) == hits

\* Intersections::from_sorted: the list as it is given
FromSorted(list) == list

\* the debug_assert! of Intersections::from_sorted
IsSortedByT(list) ==
    \A k \in 1..(Len(list) - 1) : FLe(list[k].t, list[k + 1].t)

\* Shape::intersect of world.objects[s]: an Intersection is [t, s], s the index
\* of the shape in world.objects
ShapeIntersect(objects, s, ray_world) ==
    LET shape == objects[s]
        ray_obj == RayTransform(ray_world, shape.inverse_transform)
        hits == IF shape.geom = "sphere"
                THEN LocalHitsIter(SphereLocalIntersect(ray_obj))
                ELSE LocalHitsIter(PlaneLocalIntersect(ray_obj))
    IN  IF hits = <<>> THEN <<>>
        ELSE FromSorted([k \in 1..Len(hits) |-> [t |-> hits[k], s |-> s]])

\* Sphere::local_normal_at
SphereLocalNormalAt(p_obj) == Normalize(VSub(p_obj, ORIGIN))

\* Plane::local_normal_at
PlaneLocalNormalAt(p_obj) == Vec(0, Scale, 0)

\* Shape::normal_at; the transpose of a translation acts on a Vector as the
\* identity (Matrix<4> * Vector reads the upper-left 3x3 only)
NormalAt(shape, p_world) ==
    LET p_obj == TranslatePoint(shape.inverse_transform, p_world)
        n_obj == IF shape.geom = "sphere" THEN SphereLocalNormalAt(p_obj)
                                           ELSE PlaneLocalNormalAt(p_obj)
    IN  Normalize(n_obj)

----------------------------------------------------------------------------
(* Intersections *)

RECURSIVE SortedOrders(_, _)
\* every order of the elements list[k], k \in idx, that is ascending by t:
\* what sort_unstable_by may produce (equal t in either order)
SortedOrders(list, idx) ==
    IF idx = {} THEN {<<>>}
    ELSE LET least == {k \in idx : \A j \in idx : list[k].t <= list[j].t}
         IN  UNION {{<<list[k]>> \o rest : rest \in SortedOrders(list, idx \ {k})}
                    : k \in least}

\* Intersections::new: the list sorted by t
IntersectionsNew(list) == SortedOrders(list, DOMAIN list)

\* a variant of hit that takes t = 0 for a hit
HitFirstNonNegative(list) ==
    IF \E k \in DOMAIN list : list[k].t >= 0
    THEN CHOOSE k \in DOMAIN list :
            /\ list[k].t >= 0
            /\ \A j \in 1..(k - 1) : list[j].t < 0
    ELSE 0

\* Intersections::hit: the index of the first intersection with t > 0, 0 for None
Hit(list) ==
    IF \E k \in DOMAIN list : FGt(list[k].t, 0)
    THEN CHOOSE k \in DOMAIN list :
            /\ FGt(list[k].t, 0)
            /\ \A j \in 1..(k - 1) : ~FGt(list[j].t, 0)
    ELSE 0

RECURSIVE Concat(_, _)
\* all.extend(ints.into_vec()) over the objects 1..n in order
Concat(per, n) == IF n = 0 THEN <<>> ELSE Concat(per, n - 1) \o per[n]

\* the per-shape results of World::intersections
PerShape(objects, ray) ==
    [s \in DOMAIN objects |-> ShapeIntersect(objects, s, ray)]

HasNaN(list) == \E k \in DOMAIN list : list[k].t = NaN

\* a.t.partial_cmp(&b.t).unwrap() panics when the sort compares a NaN, which
\* it does as soon as the list holds a NaN and another element
SortPanics(list) == HasNaN(list) /\ Len(list) >= 2

Panicked == [panic |-> TRUE, list |-> <<>>]

Returned(list) == [panic |-> FALSE, list |-> list]

\* World::intersections: the panic, or every value the sort may leave in `all`.
\* A debug build panics in Shape::intersect already, on the debug_assert! of
\* from_sorted; a release build panics in the sort.
WorldIntersections(objects, ray) ==
    LET per == PerShape(objects, ray)
        all == Concat(per, Len(objects))
    IN  IF SortPanics(all) \/ \E s \in DOMAIN per : ~IsSortedByT(per[s])
        THEN {Panicked}
        ELSE {Returned(FromSorted(sorted)) : sorted \in SortedOrders(all, DOMAIN all)}

----------------------------------------------------------------------------
(* Material::shade and the computations of a hit *)

\* a variant of Material::shade that does not look at in_shadow
ShadeIgnoresShadow(material, position, light, eye, normal, in_shadow) ==
    LET effective_color == FMul(material.color, light.intensity)
        light_vector == Normalize(VSub(light.position, position))
        ambient == FMul(effective_color, material.ambient)
        light_dot_normal == Dot(light_vector, normal)
        lit == light_dot_normal >= 0
        diffuse == IF lit
                   THEN FMul(FMul(effective_color, material.diffuse), light_dot_normal)
                   ELSE BLACK
        reflect_dot_eye == Dot(VNeg(Reflect(light_vector, normal)), eye)
        specular == IF lit /\ reflect_dot_eye > 0
                    THEN FMul(FMul(light.intensity, material.specular),
                              FPowi(reflect_dot_eye, material.shininess))
                    ELSE BLACK
    IN  ambient + diffuse + specular

\* Material::shade, for a material without a pattern
Shade(material, position, light, eye, normal, in_shadow) ==
    LET effective_color == FMul(material.color, light.intensity)
        light_vector == Normalize(VSub(light.position, position))
        ambient == FMul(effective_color, material.ambient)
        light_dot_normal == Dot(light_vector, normal)
        lit == light_dot_normal >= 0 /\ ~in_shadow
        diffuse == IF lit
                   THEN FMul(FMul(effective_color, material.diffuse), light_dot_normal)
                   ELSE BLACK
        reflect_vector == VNeg(Reflect(light_vector, normal))
        reflect_dot_eye == Dot(reflect_vector, eye)
        specular == IF lit /\ reflect_dot_eye > 0
                    THEN FMul(FMul(light.intensity, material.specular),
                              FPowi(reflect_dot_eye, material.shininess))
                    ELSE BLACK
    IN  ambient + diffuse + specular

\* Intersection::prepare_computations(ray): the fields intersection.rs computes
PrepareBase(objects, i, ray) ==
    LET point == Position(ray, i.t)
        eye_vector == VNeg(ray.direction)
        normal0 == NormalAt(objects[i.s], point)
        inside == Dot(normal0, eye_vector) < 0
        normal_vector == IF inside THEN VNeg(normal0) ELSE normal0
    IN  [object |-> i.s, t |-> i.t, point |-> point, eye_vector |-> eye_vector,
         normal_vector |-> normal_vector, inside |-> inside,
         over_point |-> VAdd(point, VScale(normal_vector, EPSILON))]

\* remove shape s from the container, keeping the order of the rest
Without(container, s) == SelectSeq(container, LAMBDA c : c # s)

\* a variant of the container step in which no shape ever leaves
CrossAlwaysAppends(container, s) == Append(container, s)

\* the container after one more intersection: a shape already in it leaves,
\* another one is appended
Cross(container, s) ==
    IF \E k \in DOMAIN container : container[k] = s
    THEN Without(container, s)
    ELSE Append(container, s)

RECURSIVE Containers(_, _)
\* the shapes the ray is inside after the first k intersections of the list
Containers(list, k) ==
    IF k = 0 THEN <<>> ELSE Cross(Containers(list, k - 1), list[k].s)

\* the refractive index of the last shape of the container, 1.0 when it is empty
IndexOf(objects, container) ==
    IF container = <<>> THEN Scale
    ELSE objects[container[Len(container)]].material.refractive_index

\* Intersection::prepare_computations(ray, &intersections) of list[hit], with
\* the fields world.rs reads: under_point, reflect_vector, n1, n2
PrepareComputations(objects, list, hit, ray) ==
    LET base == PrepareBase(objects, list[hit], ray)
    IN  [object |-> base.object, t |-> base.t, point |-> base.point,
         eye_vector |-> base.eye_vector, normal_vector |-> base.normal_vector,
         inside |-> base.inside, over_point |-> base.over_point,
         under_point |-> VSub(base.point, VScale(base.normal_vector, EPSILON)),
         reflect_vector |-> Reflect(ray.direction, base.normal_vector),
         n1 |-> IndexOf(objects, Containers(list, hit - 1)),
         n2 |-> IndexOf(objects, Containers(list, hit))]

\* sin^2(theta_t) of refracted_color and of schlick
Sin2T(comps) ==
    LET n_ratio == FDiv(comps.n1, comps.n2)
        cos_i == Dot(comps.eye_vector, comps.normal_vector)
    IN  FMul(FMul(n_ratio, n_ratio), Scale - FMul(cos_i, cos_i))

\* Computations::schlick: the Fresnel reflectance
Schlick(comps) ==
    LET cos_i == Dot(comps.eye_vector, comps.normal_vector)
        sin2_t == Sin2T(comps)
        total == comps.n1 > comps.n2 /\ sin2_t > Scale
        cos == IF comps.n1 > comps.n2 /\ ~total THEN FSqrt(Scale - sin2_t) ELSE cos_i
        r == FDiv(comps.n1 - comps.n2, comps.n1 + comps.n2)
        r0 == FMul(r, r)
    IN  IF total THEN Scale
        ELSE r0 + FMul(Scale - r0, FPowi(Scale - cos, 5))

\* the direction of the refracted ray, world.rs lines 137-141
RefractDirection(comps) ==
    LET n_ratio == FDiv(comps.n1, comps.n2)
        cos_i == Dot(comps.eye_vector, comps.normal_vector)
        cos_t == FSqrt(Scale - Sin2T(comps))
    IN  VSub(VScale(comps.normal_vector, FMul(n_ratio, cos_i) - cos_t),
             VScale(comps.eye_vector, n_ratio))

\* World::is_shadowed, given the intersections of the shadow ray
ShadowRay(light, point) ==
    Ray(point, Normalize(VSub(light.position, point)))

DistanceToLight(light, point) == Magnitude(VSub(light.position, point))

IsShadowed(light, point, intersections) ==
    LET hit == Hit(intersections)
    IN  IF hit # 0 THEN intersections[hit].t < DistanceToLight(light, point)
        ELSE FALSE

----------------------------------------------------------------------------
(* Camera and Canvas *)

\* the fields of view a camera is built with: pi / 2 and pi / 3
FieldsOfView == {157, 105}

\* (field_of_view / 2.0).tan() for the fields of view above
HalfView(field_of_view) == IF field_of_view = 157 THEN Scale ELSE 58

\* Camera::new
CameraNew(hsize, vsize, field_of_view) ==
    LET half_view == HalfView(field_of_view)
        aspect == FDiv(hsize * Scale, vsize * Scale)
        half_width == IF aspect >= Scale THEN half_view ELSE FMul(half_view, aspect)
        half_height == IF aspect >= Scale THEN FDiv(half_view, aspect) ELSE half_view
    IN  [hsize |-> hsize, vsize |-> vsize, field_of_view |-> field_of_view,
         transform |-> Identity,
         pixel_size |-> FDiv(half_width * 2, hsize * Scale),
         half_width |-> half_width, half_height |-> half_height]

\* a variant of the row of a pixel index that repeats its column
PixelYAsColumn(i, w) == i % w

\* camera.rs lines 70-71: the column and the row of pixel index i
PixelX(i, w) == i % w

PixelY(i, w) == i \div w

\* camera.rs lines 74-82: the ray through pixel (x, y)
RayForPixel(camera, camera_inverse, x, y) ==
    LET xoffset == FMul(x * Scale + Scale \div 2, camera.pixel_size)
        yoffset == FMul(y * Scale + Scale \div 2, camera.pixel_size)
        world_x == camera.half_width - xoffset
        world_y == camera.half_height - yoffset
        pixel == MulPoint(camera_inverse, Vec(world_x, world_y, -Scale))
        origin == MulPoint(camera_inverse, ORIGIN)
    IN  Ray(origin, Normalize(VSub(pixel, origin)))

\* a variant of the buffer index with the height as the stride
BufferIndexByHeight(canvas, x, y) == x + y * canvas.height

\* Canvas::pixel_at and Canvas::write_pixel: the buffer index of (x, y), from 0
BufferIndex(canvas, x, y) == x + y * canvas.width

\* Canvas::pixel_at; the buffer is a sequence, indexed from 1
PixelAt(canvas, x, y) == canvas.pixels[BufferIndex(canvas, x, y) + 1]

\* Canvas { width, height, pixels }
Canvas(width, height, pixels) ==
    [width |-> width, height |-> height, pixels |-> pixels]

\* Canvas::from_pixels
CanvasFromPixels(width, height, pixels) == Canvas(width, height, pixels)

----------------------------------------------------------------------------
(* The worlds, rays and points the operations are called with *)

Light(position, intensity) == [position |-> position, intensity |-> intensity]

Mirror == [DefaultMaterial EXCEPT !.reflective = Scale]

\* World::empty()
EmptyWorld == [objects |-> <<>>, light |-> Light(ORIGIN, BLACK)]

\* two facing planes with reflective = 1.0 (color_at_with_mutually_reflective_surfaces)
MirrorWorld ==
    [objects |-> <<WithTransform(WithMaterial(NewShape("plane"), Mirror), -100),
                   WithTransform(WithMaterial(NewShape("plane"), Mirror), 100)>>,
     light |-> Light(Vec(0, 0, -1000), WHITE)]

\* a reflective and transparent floor over a transparent plane over an opaque
\* ball, under a ceiling
GlassWorld ==
    [objects |->
        <<WithMaterial(WithTransform(NewShape("plane"), -100),
              [DefaultMaterial EXCEPT !.reflective = 50, !.transparency = 50,
                                      !.refractive_index = 150]),
          WithMaterial(WithTransform(NewShape("plane"), -200),
              [DefaultMaterial EXCEPT !.transparency = 100, !.reflective = -10]),
          WithMaterial(WithTransform(NewShape("sphere"), -350),
              [DefaultMaterial EXCEPT !.color = 80, !.ambient = 50]),
          WithTransform(NewShape("plane"), 300)>>,
     light |-> Light(Vec(0, 1000, -1000), WHITE)]

\* a glass sphere at the origin touching a reflective sphere
SphereWorld ==
    [objects |->
        <<WithMaterial(NewShape("sphere"),
              [DefaultMaterial EXCEPT !.color = 80, !.diffuse = 70, !.specular = 20,
                                      !.transparency = 90, !.refractive_index = 150]),
          WithMaterial(WithTransform(NewShape("sphere"), 200),
              [DefaultMaterial EXCEPT !.reflective = 50])>>,
     light |-> Light(Vec(0, 1000, -1000), WHITE)]

\* two overlapping glass spheres, the light level with the top of the first
OverlapWorld ==
    [objects |->
        <<WithMaterial(NewShape("sphere"),
              [DefaultMaterial EXCEPT !.transparency = 100, !.refractive_index = 150]),
          WithMaterial(WithTransform(NewShape("sphere"), 100),
              [DefaultMaterial EXCEPT !.transparency = 100, !.refractive_index = 200])>>,
     light |-> Light(Vec(0, 100, -1000), WHITE)]

Worlds == {EmptyWorld, MirrorWorld, GlassWorld, SphereWorld, OverlapWorld}

Origins == {ORIGIN, Vec(0, 0, -300), Vec(0, -150, 0), Vec(0, 100, 0)}

Directions ==
    {Vec(0, 100, 0), Vec(0, -100, 0), Vec(0, 0, 100), Vec(0, -71, 71), Vec(0, 71, 71)}

Points == {Vec(0, 0, -300), Vec(0, -150, 0), Vec(0, 300, 0), Vec(0, -500, 100),
           Vec(0, 2000, -2000), Vec(0, 50, 0), Vec(0, 100, 0)}

Budgets == (-1)..MaxDepth

\* a ball and a floor, opaque and not reflective, lit from behind the camera
StudioWorld ==
    [objects |->
        <<WithMaterial(NewShape("sphere"), [DefaultMaterial EXCEPT !.color = 80]),
          WithTransform(NewShape("plane"), -100)>>,
     light |-> Light(Vec(0, 1000, 1000), WHITE)]

\* a ball whose surface passes through the origin
TangentWorld ==
    [objects |-> <<WithTransform(NewShape("sphere"), 100)>>,
     light |-> Light(Vec(0, 1000, 1000), WHITE)]

\* the worlds a camera renders
RenderWorlds == {StudioWorld, TangentWorld}

\* the sizes of the rendered canvases
Sizes == {hv \in (1..MaxPixels) \X (1..MaxPixels) : hv[1] * hv[2] <= MaxPixels}

\* the transforms assigned to a camera; the last one has determinant 0
CameraTransforms == {Translation(0, 0, -300), Scaling(Scale, 0, Scale)}


\* the intersections a caller may hand to Intersections::new
Inputs == {[t |-> t, s |-> s] : t \in (-MaxT)..MaxT, s \in 1..2}

Lists == UNION {[1..n -> Inputs] : n \in 0..MaxLen}

----------------------------------------------------------------------------
(* The state machine *)

NoCalls == [color_at |-> 0, shade_hit |-> 0, is_shadowed |-> 0]

None == [fn |-> "none"]

NoResult == [set |-> FALSE, panic |-> FALSE, val |-> 0]

Value(v) == [set |-> TRUE, panic |-> FALSE, val |-> v]

Idle == stack = <<>>

\* no outside call is in progress and none has left its result behind
Fresh == Idle /\ top = None

Top == stack[Len(stack)]

Init ==
    /\ world \in Worlds
    /\ stack = <<>>
    /\ ret = BLACK
    /\ top = None
    /\ result = NoResult
    /\ done = None
    /\ calls = NoCalls
    /\ xs = <<>>
    /\ probe = None
    /\ shadow = None
    /\ scene = None
    /\ render = None
    /\ solve = None
    /\ sample = None

\* the frame of a call of color_at; counted holds the invocation counts once
\* this call is counted
ColorAtFrame(ray, remaining, counted) ==
    [fn |-> "color_at", pc |-> "start", ray |-> ray, remaining |-> remaining,
     calls0 |-> counted]

ShadeHitFrame(comps, remaining) ==
    [fn |-> "shade_hit", pc |-> "start", comps |-> comps, remaining |-> remaining,
     in_shadow |-> FALSE, surface_color |-> BLACK, reflected_color |-> BLACK]

\* the frame of reflected_color or of refracted_color; issued lists the budgets
\* of the color_at calls it has made
BounceFrame(fn, comps, remaining) ==
    [fn |-> fn, pc |-> "start", comps |-> comps, remaining |-> remaining,
     issued |-> <<>>]

\* the top frame returns v to its caller, or to the outside
Return(v, record) ==
    /\ stack' = SubSeq(stack, 1, Len(stack) - 1)
    /\ ret' = v
    /\ done' = record
    /\ result' = IF Len(stack) = 1 THEN Value(v) ELSE result

\* the top frame moves to pc and calls the function of frame
Call(pc, frame) ==
    /\ stack' = Append([stack EXCEPT ![Len(stack)].pc = pc], frame)
    /\ UNCHANGED <<ret, done, result>>

\* a panic unwinds every frame
Panic ==
    /\ stack' = <<>>
    /\ result' = [set |-> TRUE, panic |-> TRUE, val |-> 0]
    /\ done' = [fn |-> "panic"]
    /\ UNCHANGED ret

\* what a call of World::intersections leaves behind
Probe(ray, out) ==
    [fn |-> "intersections", ray |-> ray, per |-> PerShape(world.objects, ray),
     panic |-> out.panic, out |-> out.list]

\* Intersections::new(list), called from outside
NewIntersections ==
    /\ Fresh
    /\ \E list \in Lists :
        /\ xs' \in IntersectionsNew(list)
        /\ top' = [fn |-> "new", len |-> Len(list)]
    /\ UNCHANGED <<world, stack, ret, result, done, calls, probe, shadow>>
    /\ UNCHANGED <<scene, render, solve, sample>>

\* Intersections::hit of the value built last
CallHit ==
    /\ Idle
    /\ top.fn = "new"
    /\ ~result.set
    /\ result' = Value(Hit(xs))
    /\ done' = [fn |-> "hit", list |-> xs, value |-> Hit(xs)]
    /\ UNCHANGED <<world, stack, ret, top, calls, xs, probe, shadow>>
    /\ UNCHANGED <<scene, render, solve, sample>>

\* the ray the computations of a hit are prepared for from outside
PrepareRay == Ray(Vec(0, 0, -300), Vec(0, 0, 100))

\* prepare_computations of one intersection of the value built last, with the
\* whole list, as refracted_color_with_refracted_ray does
CallPrepare ==
    /\ Idle
    /\ top.fn = "new"
    /\ ~result.set
    /\ Len(world.objects) >= 2
    /\ \E hit \in DOMAIN xs :
        done' = [fn |-> "prepare", list |-> xs, hit |-> hit,
                 comps |-> PrepareComputations(world.objects, xs, hit, PrepareRay)]
    /\ result' = Value(0)
    /\ UNCHANGED <<world, stack, ret, top, calls, xs, probe, shadow>>
    /\ UNCHANGED <<scene, render, solve, sample>>

\* World::intersections(ray), called from outside
CallIntersections ==
    /\ Fresh
    /\ \E o \in Origins, d \in Directions :
        /\ top' = [fn |-> "intersections", ray |-> Ray(o, d)]
        /\ \E out \in WorldIntersections(world.objects, Ray(o, d)) :
            /\ probe' = Probe(Ray(o, d), out)
            /\ result' = [set |-> TRUE, panic |-> out.panic, val |-> 0]
    /\ UNCHANGED <<world, stack, ret, done, calls, xs, shadow>>
    /\ UNCHANGED <<scene, render, solve, sample>>

\* World::is_shadowed(point), called from outside
CallIsShadowed ==
    /\ Fresh
    /\ \E point \in Points :
        /\ top' = [fn |-> "is_shadowed", point |-> point]
        /\ \E out \in WorldIntersections(world.objects,
                                         ShadowRay(world.light, point)) :
            /\ probe' = Probe(ShadowRay(world.light, point), out)
            /\ IF out.panic
               THEN /\ result' = [set |-> TRUE, panic |-> TRUE, val |-> 0]
                    /\ UNCHANGED shadow
               ELSE /\ shadow' = [fn |-> "is_shadowed", point |-> point,
                                  out |-> out.list,
                                  value |-> IsShadowed(world.light, point, out.list)]
                    /\ result' = Value(IF IsShadowed(world.light, point, out.list)
                                       THEN 1 ELSE 0)
    /\ calls' = [calls EXCEPT !.is_shadowed = @ + 1]
    /\ UNCHANGED <<world, stack, ret, done, xs>>
    /\ UNCHANGED <<scene, render, solve, sample>>

\* World::color_at(ray, remaining), called from outside
CallColorAt ==
    /\ Fresh
    /\ \E o \in Origins, d \in Directions, remaining \in Budgets :
        /\ top' = [fn |-> "color_at", ray |-> Ray(o, d), remaining |-> remaining]
        /\ stack' = <<ColorAtFrame(Ray(o, d), remaining,
                                   [calls EXCEPT !.color_at = @ + 1])>>
    /\ calls' = [calls EXCEPT !.color_at = @ + 1]
    /\ UNCHANGED <<world, ret, result, done, xs, probe, shadow>>
    /\ UNCHANGED <<scene, render, solve, sample>>

\* a variant of the short circuit of reflected_color that still recurses at budget 0
ReflectedOffByOne(material, remaining) ==
    remaining < 0 \/ material.reflective <= 0

\* world.rs lines 104-111: the cases in which reflected_color returns BLACK at once
ReflectedShortCircuit(material, remaining) ==
    remaining <= 0 \/ material.reflective <= 0

\* a variant of the nested budget that is not reduced
ReflectedBudgetKept(remaining) == remaining

\* world.rs line 113: the budget of the nested color_at of reflected_color
ReflectedBudget(remaining) == remaining - 1

\* world.rs line 114: the nested color scaled by the reflective coefficient
ReflectedValue(color, material) == FMul(color, material.reflective)

\* a variant of the short circuit of refracted_color without the test of line 131
RefractedIgnoresTotalReflection(material, comps, remaining) ==
    material.transparency = 0 \/ remaining <= 0

\* a variant of the short circuit of refracted_color that still refracts at
\* budget 0
RefractedAtBudgetZero(material, comps, remaining) ==
    \/ material.transparency = 0
    \/ remaining < 0
    \/ Sin2T(comps) > Scale

\* world.rs lines 118 and 131: the cases in which refracted_color returns BLACK
RefractedShortCircuit(material, comps, remaining) ==
    \/ material.transparency = 0
    \/ remaining <= 0
    \/ Sin2T(comps) > Scale

\* world.rs line 145: the budget of the nested color_at of refracted_color
RefractedBudget(remaining) == remaining - 1

\* world.rs line 145: the nested color scaled by the transparency
RefractedValue(color, material) == FMul(color, material.transparency)

\* a variant of the test of line 57 with || for &&
SchlickWhenEither(material) == material.reflective > 0 \/ material.transparency > 0

\* world.rs line 57: whether shade_hit blends by the Schlick reflectance
UsesSchlick(material) == material.reflective > 0 /\ material.transparency > 0

\* world.rs lines 57-63: the color shade_hit returns
Combine(material, comps, surface_color, reflected_color, refracted_color) ==
    IF UsesSchlick(material)
    THEN LET reflectance == Schlick(comps)
         IN  surface_color + FMul(reflected_color, reflectance)
                           + FMul(refracted_color, Scale - reflectance)
    ELSE surface_color + reflected_color + refracted_color

\* a variant of color_at with a white background
NoHitWhite == WHITE

\* World::color_at returns BLACK when there is no hit, world.rs line 81
NoHitColor == BLACK

\* World::color_at, lines 68-82: intersect, take the hit, shade it or return BLACK
ColorAtBody ==
    /\ ~Idle
    /\ Top.fn = "color_at"
    /\ Top.pc = "start"
    /\ \E out \in WorldIntersections(world.objects, Top.ray) :
        /\ probe' = Probe(Top.ray, out)
        /\ IF out.panic
           THEN Panic /\ UNCHANGED calls
           ELSE IF Hit(out.list) = 0
           THEN /\ Return(NoHitColor,
                          [fn |-> "color_at", ray |-> Top.ray,
                           remaining |-> Top.remaining, intersections |-> out.list,
                           hit |-> 0, value |-> NoHitColor, calls0 |-> Top.calls0,
                           calls1 |-> calls])
                /\ UNCHANGED calls
           ELSE /\ Call("shade_hit",
                        ShadeHitFrame(PrepareComputations(world.objects, out.list,
                                                          Hit(out.list), Top.ray),
                                      Top.remaining))
                /\ calls' = [calls EXCEPT !.shade_hit = @ + 1]
    /\ UNCHANGED <<world, top, xs, shadow>>
    /\ UNCHANGED <<scene, render, solve, sample>>

\* World::color_at, line 77: the value of shade_hit is the value of color_at
ColorAtReturn ==
    /\ ~Idle
    /\ Top.fn = "color_at"
    /\ Top.pc = "shade_hit"
    /\ Return(ret, [fn |-> "color_at", ray |-> Top.ray, remaining |-> Top.remaining,
                    intersections |-> <<>>, hit |-> 1, value |-> ret,
                    calls0 |-> Top.calls0, calls1 |-> calls])
    /\ UNCHANGED <<world, top, calls, xs, probe, shadow>>
    /\ UNCHANGED <<scene, render, solve, sample>>

\* World::shade_hit, lines 45-54: the surface color, with the shadow test, then
\* the call of reflected_color
ShadeHitBody ==
    /\ ~Idle
    /\ Top.fn = "shade_hit"
    /\ Top.pc = "start"
    /\ LET comps == Top.comps
           material == world.objects[comps.object].material
           ray == ShadowRay(world.light, comps.over_point)
       IN  \E out \in WorldIntersections(world.objects, ray) :
            /\ probe' = Probe(ray, out)
            /\ IF out.panic
               THEN Panic /\ UNCHANGED shadow
               ELSE LET in_shadow == IsShadowed(world.light, comps.over_point, out.list)
                    IN  /\ shadow' = [fn |-> "is_shadowed", point |-> comps.over_point,
                                      out |-> out.list, value |-> in_shadow]
                        /\ stack' = Append(
                               [stack EXCEPT
                                   ![Len(stack)].pc = "reflected_color",
                                   ![Len(stack)].in_shadow = in_shadow,
                                   ![Len(stack)].surface_color =
                                       Shade(material, comps.point, world.light,
                                             comps.eye_vector, comps.normal_vector,
                                             in_shadow)],
                               BounceFrame("reflected_color", comps, Top.remaining))
                        /\ UNCHANGED <<ret, done, result>>
    /\ calls' = [calls EXCEPT !.is_shadowed = @ + 1]
    /\ UNCHANGED <<world, top, xs>>
    /\ UNCHANGED <<scene, render, solve, sample>>

\* World::shade_hit, line 55: reflected_color has returned, call refracted_color
ShadeHitReflected ==
    /\ ~Idle
    /\ Top.fn = "shade_hit"
    /\ Top.pc = "reflected_color"
    /\ stack' = Append(
           [stack EXCEPT ![Len(stack)].pc = "refracted_color",
                         ![Len(stack)].reflected_color = ret],
           BounceFrame("refracted_color", Top.comps, Top.remaining))
    /\ UNCHANGED <<world, ret, top, result, done, calls, xs, probe, shadow>>
    /\ UNCHANGED <<scene, render, solve, sample>>

\* World::shade_hit, lines 57-63: refracted_color has returned, combine
ShadeHitCombine ==
    /\ ~Idle
    /\ Top.fn = "shade_hit"
    /\ Top.pc = "refracted_color"
    /\ LET material == world.objects[Top.comps.object].material
           value == Combine(material, Top.comps, Top.surface_color,
                            Top.reflected_color, ret)
       IN  Return(value, [fn |-> "shade_hit", comps |-> Top.comps,
                          remaining |-> Top.remaining, in_shadow |-> Top.in_shadow,
                          surface_color |-> Top.surface_color,
                          reflected_color |-> Top.reflected_color,
                          refracted_color |-> ret, value |-> value])
    /\ UNCHANGED <<world, top, calls, xs, probe, shadow>>
    /\ UNCHANGED <<scene, render, solve, sample>>

\* the top frame, of reflected_color or refracted_color, calls color_at
Nested(ray, budget) ==
    /\ stack' = Append(
           [stack EXCEPT ![Len(stack)].pc = "color_at",
                         ![Len(stack)].issued = Append(@, budget)],
           ColorAtFrame(ray, budget, [calls EXCEPT !.color_at = @ + 1]))
    /\ calls' = [calls EXCEPT !.color_at = @ + 1]
    /\ UNCHANGED <<ret, done, result>>

\* what a call of reflected_color or refracted_color leaves behind
Bounce(value, nested) ==
    [fn |-> Top.fn, comps |-> Top.comps, remaining |-> Top.remaining,
     issued |-> Top.issued, nested |-> nested, value |-> value]

\* World::reflected_color, lines 104-113: BLACK at once, or the nested color_at
ReflectedColorBody ==
    /\ ~Idle
    /\ Top.fn = "reflected_color"
    /\ Top.pc = "start"
    /\ IF ReflectedShortCircuit(world.objects[Top.comps.object].material,
                                Top.remaining)
       THEN Return(BLACK, Bounce(BLACK, BLACK)) /\ UNCHANGED calls
       ELSE Nested(Ray(Top.comps.over_point, Top.comps.reflect_vector),
                   ReflectedBudget(Top.remaining))
    /\ UNCHANGED <<world, top, xs, probe, shadow>>
    /\ UNCHANGED <<scene, render, solve, sample>>

\* World::reflected_color, line 114: the nested color scaled by reflective
ReflectedColorReturn ==
    /\ ~Idle
    /\ Top.fn = "reflected_color"
    /\ Top.pc = "color_at"
    /\ LET value == ReflectedValue(ret, world.objects[Top.comps.object].material)
       IN  Return(value, Bounce(value, ret))
    /\ UNCHANGED <<world, top, calls, xs, probe, shadow>>
    /\ UNCHANGED <<scene, render, solve, sample>>

\* World::refracted_color, lines 118-143: BLACK at once, or the nested color_at
RefractedColorBody ==
    /\ ~Idle
    /\ Top.fn = "refracted_color"
    /\ Top.pc = "start"
    /\ IF RefractedShortCircuit(world.objects[Top.comps.object].material,
                                Top.comps, Top.remaining)
       THEN Return(BLACK, Bounce(BLACK, BLACK)) /\ UNCHANGED calls
       ELSE Nested(Ray(Top.comps.under_point, RefractDirection(Top.comps)),
                   RefractedBudget(Top.remaining))
    /\ UNCHANGED <<world, top, xs, probe, shadow>>
    /\ UNCHANGED <<scene, render, solve, sample>>

\* World::refracted_color, line 145: the nested color scaled by transparency
RefractedColorReturn ==
    /\ ~Idle
    /\ Top.fn = "refracted_color"
    /\ Top.pc = "color_at"
    /\ LET value == RefractedValue(ret, world.objects[Top.comps.object].material)
       IN  Return(value, Bounce(value, ret))
    /\ UNCHANGED <<world, top, calls, xs, probe, shadow>>
    /\ UNCHANGED <<scene, render, solve, sample>>

\* the caller is done with the result of its call
Drop ==
    /\ Idle
    /\ result.set
    /\ stack' = <<>>
    /\ ret' = BLACK
    /\ top' = None
    /\ result' = NoResult
    /\ done' = None
    /\ calls' = NoCalls
    /\ xs' = <<>>
    /\ probe' = None
    /\ shadow' = None
    /\ UNCHANGED world
    /\ UNCHANGED <<scene, render, solve, sample>>

Next ==
    \/ NewIntersections
    \/ CallHit
    \/ CallPrepare
    \/ CallIntersections
    \/ CallIsShadowed
    \/ CallColorAt
    \/ ColorAtBody
    \/ ColorAtReturn
    \/ ShadeHitBody
    \/ ShadeHitReflected
    \/ ShadeHitCombine
    \/ ReflectedColorBody
    \/ ReflectedColorReturn
    \/ RefractedColorBody
    \/ RefractedColorReturn
    \/ Drop

Spec == Init /\ [][Next]_vars

----------------------------------------------------------------------------
(* Camera::render and Camera::render_with_progress *)

\* World::shade_hit in a world whose materials are neither reflective nor
\* transparent, given the intersections of the shadow ray: reflected_color and
\* refracted_color return BLACK at once, so the color is the surface color
SurfaceColor(w, comps, sout) ==
    IF sout.panic THEN [panic |-> TRUE, color |-> BLACK]
    ELSE [panic |-> FALSE,
          color |-> Shade(w.objects[comps.object].material, comps.point, w.light,
                          comps.eye_vector, comps.normal_vector,
                          IsShadowed(w.light, comps.over_point, sout.list))]

\* the call of is_shadowed in shade_hit; the sort is a function of its input
ShadeHitOf(w, comps) ==
    SurfaceColor(w, comps,
                 CHOOSE o \in WorldIntersections(
                                  w.objects, ShadowRay(w.light, comps.over_point)) :
                     TRUE)

\* World::color_at, given the outcome of World::intersections
ColorOfIntersections(w, ray, out) ==
    IF out.panic THEN [panic |-> TRUE, color |-> BLACK]
    ELSE IF Hit(out.list) = 0 THEN [panic |-> FALSE, color |-> NoHitColor]
    ELSE ShadeHitOf(w, PrepareComputations(w.objects, out.list, Hit(out.list), ray))

\* World::color_at
ColorOfRay(w, ray) ==
    ColorOfIntersections(w, ray,
                         CHOOSE o \in WorldIntersections(w.objects, ray) : TRUE)

\* the closure of the parallel map: the color of pixel index i
PixelColor(w, camera, camera_inverse, i) ==
    ColorOfRay(w, RayForPixel(camera, camera_inverse,
                              PixelX(i, camera.hsize), PixelY(i, camera.hsize)))

\* let total = w * h
Total(camera) == camera.hsize * camera.vsize

\* a variant of the collect in which every worker writes the first slot
SlotShared(i) == 0

\* collect() of an indexed parallel iterator: item i goes to slot i
SlotOf(i) == i

\* a variant of the counter read that returns the value before the increment
ObservedOld(old) == old

\* progress.fetch_add(1, Relaxed) + 1: the value this worker observes
Observed(old) == old + 1

\* let step = (total / 100).max(1)
Step(total) == IF total \div 100 > 1 THEN total \div 100 ELSE 1

\* if n % step == 0 || n == total
ShouldReport(n, step, total) == n % step = 0 \/ n = total

\* a slot of the pixel vector that no worker has written
Unwritten == -1

\* no outcome of an earlier render of the same camera is kept
NoCanvas == [width |-> 0, height |-> 0, pixels |-> <<>>]

\* the camera, before a render method is called on it
Ready(camera, first) == [fn |-> "camera", cam |-> camera, first |-> first]

\* the state of a render method that has computed camera_inverse
Running(method, camera, camera_inverse, first) ==
    [fn |-> method, cam |-> camera, status |-> "running",
     inverse |-> camera_inverse,
     task |-> [i \in 0..(Total(camera) - 1) |-> [pc |-> "todo"]],
     pixels |-> [i \in 0..(Total(camera) - 1) |-> Unwritten],
     evals |-> [i \in 0..(Total(camera) - 1) |-> 0],
     writes |-> [i \in 0..(Total(camera) - 1) |-> 0],
     progress |-> 0, seen |-> <<>>, reports |-> <<>>,
     cause |-> "", canvas |-> NoCanvas, first |-> first]

\* the workers that hold a color they have not yet returned
InFlight == {i \in DOMAIN render.task : render.task[i].pc \in {"colored", "counted"}}

\* a panic in the closure of item i ends the render
Unwound(r, i) ==
    [r EXCEPT !.status = "panicked", !.cause = "color_at", !.evals[i] = @ + 1]

\* render: the color c of item i is returned and collected
Collected(r, i, c) ==
    IF c.panic THEN Unwound(r, i)
    ELSE [r EXCEPT !.task[i] = [pc |-> "done"],
                   !.evals[i] = @ + 1,
                   !.pixels[SlotOf(i)] = c.color,
                   !.writes[SlotOf(i)] = @ + 1]

\* a variant of the worker of render_with_progress that loses its color
ColoredBlack(r, i, c) ==
    IF c.panic THEN Unwound(r, i)
    ELSE [r EXCEPT !.task[i] = [pc |-> "colored", c |-> BLACK],
                   !.evals[i] = @ + 1]

\* render_with_progress: the worker of item i holds its color c
Colored(r, i, c) ==
    IF c.panic THEN Unwound(r, i)
    ELSE [r EXCEPT !.task[i] = [pc |-> "colored", c |-> c.color],
                   !.evals[i] = @ + 1]

\* Camera::new
CameraCreate ==
    /\ render = None
    /\ \E hv \in Sizes, field_of_view \in FieldsOfView :
        render' = Ready(CameraNew(hv[1], hv[2], field_of_view), NoCanvas)
    /\ UNCHANGED <<world, stack, ret, top, result, done, calls, xs, probe, shadow>>
    /\ UNCHANGED <<scene, solve, sample>>

\* camera.transform = m: the field is public and is assigned as it is
CameraSetTransform ==
    /\ render.fn = "camera"
    /\ render.cam.transform = Identity
    /\ render.first = NoCanvas
    /\ \E m \in CameraTransforms :
        render' = [render EXCEPT !.cam.transform = m]
    /\ UNCHANGED <<world, stack, ret, top, result, done, calls, xs, probe, shadow>>
    /\ UNCHANGED <<scene, solve, sample>>

\* the first lines of both render methods: camera_inverse = transform.inverse()
RenderCall ==
    /\ render.fn = "camera"
    /\ \E method \in {"render", "render_with_progress"} :
        /\ render.first # NoCanvas => method = "render"
        /\ LET inv == MatrixInverse(render.cam.transform)
           IN  render' =
                 IF inv.panic
                 THEN [Running(method, render.cam, inv.m, render.first)
                         EXCEPT !.status = "panicked", !.cause = "inverse"]
                 ELSE Running(method, render.cam, inv.m, render.first)
    /\ UNCHANGED <<world, stack, ret, top, result, done, calls, xs, probe, shadow>>
    /\ UNCHANGED <<scene, solve, sample>>

\* Camera::render: one item of the parallel map, collected into its slot
RenderPixel ==
    /\ render.fn = "render"
    /\ render.status = "running"
    /\ \E i \in DOMAIN render.task :
        /\ render.task[i].pc = "todo"
        /\ render' = Collected(render, i,
                                PixelColor(world, render.cam, render.inverse, i))
    /\ UNCHANGED <<world, stack, ret, top, result, done, calls, xs, probe, shadow>>
    /\ UNCHANGED <<scene, solve, sample>>

\* Camera::render_with_progress: a worker takes item i and computes its color
ProgressColor ==
    /\ render.fn = "render_with_progress"
    /\ render.status = "running"
    /\ Cardinality(InFlight) < MaxThreads
    /\ \E i \in DOMAIN render.task :
        /\ render.task[i].pc = "todo"
        /\ render' = Colored(render, i,
                              PixelColor(world, render.cam, render.inverse, i))
    /\ UNCHANGED <<world, stack, ret, top, result, done, calls, xs, probe, shadow>>
    /\ UNCHANGED <<scene, solve, sample>>

\* the worker of item i increments the shared counter, one atomic step
ProgressFetchAdd ==
    /\ render.fn = "render_with_progress"
    /\ render.status = "running"
    /\ \E i \in DOMAIN render.task :
        /\ render.task[i].pc = "colored"
        /\ LET n == Observed(render.progress)
           IN  render' = [render EXCEPT
                            !.progress = @ + 1,
                            !.seen = Append(@, n),
                            !.task[i] = [pc |-> "counted", c |-> render.task[i].c,
                                         n |-> n]]
    /\ UNCHANGED <<world, stack, ret, top, result, done, calls, xs, probe, shadow>>
    /\ UNCHANGED <<scene, solve, sample>>

\* the worker of item i reports if its n is due, then returns its color, which
\* is collected into its slot
ProgressReport ==
    /\ render.fn = "render_with_progress"
    /\ render.status = "running"
    /\ \E i \in DOMAIN render.task :
        /\ render.task[i].pc = "counted"
        /\ LET n == render.task[i].n
               total == Total(render.cam)
           IN  render' = [render EXCEPT
                            !.reports = IF ShouldReport(n, Step(total), total)
                                        THEN Append(@, n) ELSE @,
                            !.task[i] = [pc |-> "done"],
                            !.pixels[SlotOf(i)] = render.task[i].c,
                            !.writes[SlotOf(i)] = @ + 1]
    /\ UNCHANGED <<world, stack, ret, top, result, done, calls, xs, probe, shadow>>
    /\ UNCHANGED <<scene, solve, sample>>

\* every item is collected: the method returns its canvas
RenderReturn ==
    /\ render.fn \in {"render", "render_with_progress"}
    /\ render.status = "running"
    /\ \A i \in DOMAIN render.task : render.task[i].pc = "done"
    /\ LET pixels == [k \in 1..Total(render.cam) |-> render.pixels[k - 1]]
       IN  render' = [render EXCEPT
                        !.status = "returned",
                        !.canvas = IF render.fn = "render"
                                   THEN Canvas(render.cam.hsize, render.cam.vsize,
                                               pixels)
                                   ELSE CanvasFromPixels(render.cam.hsize,
                                                         render.cam.vsize, pixels)]
    /\ UNCHANGED <<world, stack, ret, top, result, done, calls, xs, probe, shadow>>
    /\ UNCHANGED <<scene, solve, sample>>

\* the caller keeps the canvas of render_with_progress and the camera
RenderAgain ==
    /\ render.fn = "render_with_progress"
    /\ render.status = "returned"
    /\ render' = Ready(render.cam, render.canvas)
    /\ UNCHANGED <<world, stack, ret, top, result, done, calls, xs, probe, shadow>>
    /\ UNCHANGED <<scene, solve, sample>>

\* the caller is done with the camera and what it rendered
RenderDrop ==
    /\ render.fn \in {"render", "render_with_progress"}
    /\ render.status \in {"returned", "panicked"}
    /\ render' = None
    /\ UNCHANGED <<world, stack, ret, top, result, done, calls, xs, probe, shadow>>
    /\ UNCHANGED <<scene, solve, sample>>

InitRender ==
    /\ world \in RenderWorlds
    /\ stack = <<>>
    /\ ret = BLACK
    /\ top = None
    /\ result = NoResult
    /\ done = None
    /\ calls = NoCalls
    /\ xs = <<>>
    /\ probe = None
    /\ shadow = None
    /\ scene = None
    /\ render = None
    /\ solve = None
    /\ sample = None

NextRender ==
    \/ CameraCreate
    \/ CameraSetTransform
    \/ RenderCall
    \/ RenderPixel
    \/ ProgressColor
    \/ ProgressFetchAdd
    \/ ProgressReport
    \/ RenderReturn
    \/ RenderAgain
    \/ RenderDrop

SpecRender == InitRender /\ [][NextRender]_vars

----------------------------------------------------------------------------
(* Properties *)

\* the color_at frames of the stack, innermost last
ColorAtFrames == SelectSeq(stack, LAMBDA f : f.fn = "color_at")

\* every nested color_at has one less than the budget of the reflected_color or
\* refracted_color frame that called it, and that frame had a positive budget
NestedBudgets ==
    \A k \in 2..Len(stack) :
        stack[k].fn = "color_at" =>
            /\ stack[k - 1].fn \in {"reflected_color", "refracted_color"}
            /\ stack[k - 1].remaining > 0
            /\ stack[k].remaining = stack[k - 1].remaining - 1

\* the nesting depth of color_at is at most d + 1 for a budget d >= 0, and 1 for
\* a negative budget
BoundedNesting ==
    top.fn = "color_at" =>
        Len(ColorAtFrames) <= (IF top.remaining > 0 THEN top.remaining ELSE 0) + 1

\* C1: color_at(ray, d) returns for every budget d: every nested color_at call
\* carries remaining - 1, none is issued at remaining <= 0, the nesting depth
\* never exceeds d + 1, and no call ends without a value.
C1_ColorAtReturns ==
    /\ NestedBudgets
    /\ BoundedNesting
    /\ (top.fn = "color_at" /\ result.set) => ~result.panic

\* h is the index of an intersection of list with the smallest t > 0
LeastPositive(list, h) ==
    /\ h \in DOMAIN list
    /\ list[h].t > 0
    /\ \A k \in DOMAIN list : list[k].t > 0 => list[h].t <= list[k].t

\* color_at has just taken the hit of probe.out and starts shading it
ShadingStarts == ~Idle /\ Top.fn = "shade_hit" /\ Top.pc = "start"

\* C2: Intersections::hit returns the intersection with the smallest strictly
\* positive t; one with t = 0 or t < 0 is never returned; None exactly when no
\* intersection has t > 0. Both for the values built by Intersections::new and
\* for the hit color_at takes from World::intersections.
C2_HitIsLeastPositive ==
    /\ done.fn = "hit" =>
        IF \E k \in DOMAIN done.list : done.list[k].t > 0
        THEN LeastPositive(done.list, done.value)
        ELSE done.value = 0
    /\ ShadingStarts =>
        \E h \in DOMAIN probe.out :
            /\ LeastPositive(probe.out, h)
            /\ Top.comps.t = probe.out[h].t
            /\ Top.comps.object = probe.out[h].s

\* hit has skipped an intersection at t = 0 and one behind the ray
C2_Witness ==
    /\ done.fn = "hit"
    /\ done.value = 3
    /\ done.list[1].t < 0
    /\ done.list[2].t = 0

\* C3: every Intersections value is sorted ascending by t: the one
\* Intersections::new builds, every list Shape::intersect hands to from_sorted,
\* and the one World::intersections hands to from_sorted.
C3_AlwaysSorted ==
    /\ IsSortedByT(xs)
    /\ probe.fn = "intersections" =>
        /\ \A s \in DOMAIN probe.per : IsSortedByT(probe.per[s])
        /\ IsSortedByT(probe.out)

\* the number of occurrences of x in list
Count(list, x) == Cardinality({k \in DOMAIN list : list[k] = x})

RECURSIVE SumLen(_, _)
SumLen(per, n) == IF n = 0 THEN 0 ELSE SumLen(per, n - 1) + Len(per[n])

\* out holds the hits of every shape, each as often as its shape produced it, and
\* nothing else
ExactUnion(per, out) ==
    /\ Len(out) = SumLen(per, Len(per))
    /\ \A k \in DOMAIN out :
        /\ out[k].s \in DOMAIN per
        /\ Count(out, out[k]) = Count(per[out[k].s], out[k])
    /\ \A s \in DOMAIN per : \A k \in DOMAIN per[s] :
        /\ per[s][k].s = s
        /\ Count(out, per[s][k]) = Count(per[s], per[s][k])

\* C4: World::intersections(ray) returns exactly the union of the hits of every
\* shape (its length the sum of the per-shape counts), each hit with the shape
\* that produced it, in ascending order of t.
C4_ExactUnion ==
    (top.fn = "intersections" /\ result.set) =>
        /\ ~probe.panic
        /\ ExactUnion(probe.per, probe.out)
        /\ IsSortedByT(probe.out)

\* some shape is hit by the shadow ray between the point and the light
Occluded(point) ==
    \E s \in DOMAIN probe.per : \E k \in DOMAIN probe.per[s] :
        /\ FGt(probe.per[s][k].t, 0)
        /\ probe.per[s][k].t < DistanceToLight(world.light, point)

\* C5: is_shadowed(point) is true if and only if some intersection of the ray
\* from point toward the light has 0 < t < distance(point, light).
C5_ShadowedIff ==
    (top.fn = "is_shadowed" /\ result.set) =>
        ((~result.panic /\ result.val = 1) <=> Occluded(top.point))

\* the material of the hit of comps
MaterialOf(comps) == world.objects[comps.object].material

\* C6: reflected_color returns black and issues no color_at call whenever the
\* reflective coefficient is <= 0 or the remaining budget is <= 0; otherwise it
\* returns color_at(reflection ray, remaining - 1) scaled by the coefficient.
C6_ReflectedColor ==
    /\ done.fn = "reflected_color" =>
        IF MaterialOf(done.comps).reflective <= 0 \/ done.remaining <= 0
        THEN done.value = BLACK /\ done.issued = <<>>
        ELSE /\ done.issued = <<done.remaining - 1>>
             /\ done.value = FMul(done.nested, MaterialOf(done.comps).reflective)
    /\ \A k \in DOMAIN stack :
        (stack[k].fn = "reflected_color" /\ stack[k].pc = "color_at") =>
            /\ MaterialOf(stack[k].comps).reflective > 0
            /\ stack[k].remaining > 0
            /\ stack[k].issued = <<stack[k].remaining - 1>>
            /\ k < Len(stack) =>
                /\ stack[k + 1].fn = "color_at"
                /\ stack[k + 1].remaining = stack[k].remaining - 1
                /\ stack[k + 1].ray = Ray(stack[k].comps.over_point,
                                          stack[k].comps.reflect_vector)
    /\ (~Idle /\ Top.fn = "reflected_color" /\ Top.pc = "color_at") =>
        /\ done.fn = "color_at"
        /\ done.remaining = Top.remaining - 1
        /\ done.ray = Ray(Top.comps.over_point, Top.comps.reflect_vector)
        /\ ret = done.value

\* reflected_color has returned a nested color, scaled, that is not black
C6_Witness ==
    /\ done.fn = "reflected_color"
    /\ done.issued = <<done.remaining - 1>>
    /\ done.nested # BLACK
    /\ done.value # BLACK
    /\ done.value # done.nested

\* C7: refracted_color returns black and issues no color_at call when the
\* material is opaque (transparency 0), when the remaining budget is <= 0, or
\* under total internal reflection (sin2_t > 1); in every other case it issues
\* exactly one color_at call with budget remaining - 1 and scales its result by
\* the transparency.
C7_RefractedColor ==
    /\ done.fn = "refracted_color" =>
        IF \/ MaterialOf(done.comps).transparency = 0
           \/ done.remaining <= 0
           \/ Sin2T(done.comps) > Scale
        THEN done.value = BLACK /\ done.issued = <<>>
        ELSE /\ done.issued = <<done.remaining - 1>>
             /\ done.value = FMul(done.nested, MaterialOf(done.comps).transparency)
    /\ \A k \in DOMAIN stack :
        (stack[k].fn = "refracted_color" /\ stack[k].pc = "color_at") =>
            /\ MaterialOf(stack[k].comps).transparency # 0
            /\ stack[k].remaining > 0
            /\ Sin2T(stack[k].comps) <= Scale
            /\ stack[k].issued = <<stack[k].remaining - 1>>
            /\ k < Len(stack) =>
                /\ stack[k + 1].fn = "color_at"
                /\ stack[k + 1].remaining = stack[k].remaining - 1
    /\ (~Idle /\ Top.fn = "refracted_color" /\ Top.pc = "color_at") =>
        /\ done.fn = "color_at"
        /\ done.remaining = Top.remaining - 1
        /\ ret = done.value

\* refracted_color has returned black, without a call, for a transparent
\* material with budget left: total internal reflection
C7_Witness ==
    /\ done.fn = "refracted_color"
    /\ MaterialOf(done.comps).transparency > 0
    /\ done.remaining > 0
    /\ Sin2T(done.comps) > Scale
    /\ done.issued = <<>>
    /\ done.value = BLACK

\* the intersections among the first k of list whose shape the ray has crossed
\* an odd number of times by then, that is the shapes it is inside
Entered(list, k) ==
    {j \in 1..k : Cardinality({i \in 1..k : list[i].s = list[j].s}) % 2 = 1}

\* the refractive index of the shape entered last among those the ray is inside
\* after the first k intersections, 1.0 when it is inside none
IndexAfter(objects, list, k) ==
    IF Entered(list, k) = {} THEN Scale
    ELSE LET last == CHOOSE j \in Entered(list, k) :
                        \A i \in Entered(list, k) : i <= j
         IN  objects[list[last].s].material.refractive_index

\* C8: n1 and n2 of the computations of a hit come from the walk over the sorted
\* list with a container of the shapes the ray is inside: n1 is the index of the
\* last shape in the container just before the hit is processed, n2 just after,
\* 1.0 for an empty container.
C8_RefractiveIndices ==
    /\ done.fn = "prepare" =>
        /\ done.comps.n1 = IndexAfter(world.objects, done.list, done.hit - 1)
        /\ done.comps.n2 = IndexAfter(world.objects, done.list, done.hit)
    /\ ShadingStarts =>
        /\ Top.comps.n1 = IndexAfter(world.objects, probe.out, Hit(probe.out) - 1)
        /\ Top.comps.n2 = IndexAfter(world.objects, probe.out, Hit(probe.out))

\* the hit leaves a shape while the ray is still inside another one entered
\* before it: n1 is the index of the shape left, n2 that of the other
C8_Witness ==
    /\ done.fn = "prepare"
    /\ done.hit = 3
    /\ done.list[1].s # done.list[2].s
    /\ done.list[3].s = done.list[2].s
    /\ done.comps.n1 = world.objects[done.list[2].s].material.refractive_index
    /\ done.comps.n2 = world.objects[done.list[1].s].material.refractive_index
    /\ done.comps.n1 # done.comps.n2

\* C9: shade_hit returns surface + reflected * R + refracted * (1 - R), R the
\* Schlick reflectance, exactly when the material has reflective > 0 and
\* transparency > 0, and surface + reflected + refracted in every other case.
C9_ShadeHitCombines ==
    done.fn = "shade_hit" =>
        LET material == MaterialOf(done.comps)
            R == Schlick(done.comps)
        IN  done.value =
                IF material.reflective > 0 /\ material.transparency > 0
                THEN done.surface_color + FMul(done.reflected_color, R)
                                        + FMul(done.refracted_color, Scale - R)
                ELSE done.surface_color + done.reflected_color
                                        + done.refracted_color

\* shade_hit has blended contributions that are not black, and the blend is not
\* the plain sum
C9_Witness ==
    /\ done.fn = "shade_hit"
    /\ MaterialOf(done.comps).reflective > 0
    /\ MaterialOf(done.comps).transparency > 0
    /\ done.reflected_color # BLACK
    /\ done.refracted_color # BLACK
    /\ done.value # done.surface_color + done.reflected_color + done.refracted_color

\* C10: color_at returns black for every ray without a hit (empty world, a ray
\* that misses every shape, every intersection at t <= 0), and then performs no
\* shading, shadow test or recursive call; it shades only a ray that has a hit.
C10_NoHitIsBlack ==
    /\ (done.fn = "color_at" /\ done.hit = 0) =>
        /\ \A k \in DOMAIN done.intersections : FLe(done.intersections[k].t, 0)
        /\ done.value = BLACK
        /\ done.calls1 = done.calls0
    /\ ShadingStarts => \E k \in DOMAIN probe.out : FGt(probe.out[k].t, 0)
    /\ (~Idle /\ Top.fn = "color_at" /\ Top.pc = "shade_hit") =>
        calls.shade_hit > Top.calls0.shade_hit

\* color_at has returned black for a ray whose intersections are all behind its
\* origin or at it
C10_Witness ==
    /\ done.fn = "color_at"
    /\ done.hit = 0
    /\ done.intersections # <<>>
    /\ \E k \in DOMAIN done.intersections : done.intersections[k].t = 0
    /\ done.value = BLACK

----------------------------------------------------------------------------
(* Properties of the render methods *)

RenderMethods == {"render", "render_with_progress"}

\* a call of a render method is in progress or has ended
Rendering == render.fn \in RenderMethods

\* the color World::color_at gives the ray of pixel (x, y)
ExpectedColor(x, y) ==
    ColorOfRay(world, RayForPixel(render.cam, render.inverse, x, y)).color

\* the canvas holds hsize * vsize colors and pixel_at(x, y) is the color of
\* the ray of pixel (x, y)
RowMajor(canvas) ==
    /\ canvas.width = render.cam.hsize
    /\ canvas.height = render.cam.vsize
    /\ Len(canvas.pixels) = render.cam.hsize * render.cam.vsize
    /\ \A x \in 0..(render.cam.hsize - 1), y \in 0..(render.cam.vsize - 1) :
        PixelAt(canvas, x, y) = ExpectedColor(x, y)

\* a render that returns has evaluated every pixel index once and returns the
\* row-major canvas
RowMajorWhenReturned ==
    Rendering /\ render.status = "returned"
        => /\ RowMajor(render.canvas)
           /\ \A i \in DOMAIN render.evals : render.evals[i] = 1

\* C11: Camera::render, of a camera whose transform has an inverse, returns a canvas of exactly hsize * vsize colors in
\* row-major order: pixel_at(x, y), which reads index x + y * hsize, is the
\* color of the ray of pixel (x, y), and every pixel index is evaluated once.
C11_RenderRowMajor ==
    render.fn = "render" /\ render.status # "running" /\ render.cause # "inverse"
        => /\ render.status = "returned"
           /\ RowMajor(render.canvas)
           /\ \A i \in DOMAIN render.evals : render.evals[i] = 1

\* the scene decides whether a render panics: the transform of the camera
\* has no inverse, or color_at panics for the ray of some pixel
ScenePanics ==
    \/ MatrixInverse(render.cam.transform).panic
    \/ \E i \in 0..(Total(render.cam) - 1) :
        PixelColor(world, render.cam, render.inverse, i).panic

\* C12: the outcome of a render is the same for every scheduling of the
\* workers: each pixel index is written to its own slot by the one worker
\* that finished it, the returned buffer is the row-major buffer of the scene,
\* and whether the render panics depends on the scene alone.
C12_SameForEverySchedule ==
    Rendering =>
        /\ \A i \in DOMAIN render.writes :
            render.writes[i] = IF render.task[i].pc = "done" THEN 1 ELSE 0
        /\ render.status = "returned" => RowMajor(render.canvas) /\ ~ScenePanics
        /\ render.status = "panicked" => ScenePanics

\* two workers are in flight while the last pixel is written and the first
\* one has not been started
C12_Witness ==
    /\ render.fn = "render_with_progress"
    /\ render.status = "running"
    /\ Cardinality(InFlight) = 2
    /\ render.task[0].pc = "todo"
    /\ render.task[Total(render.cam) - 1].pc = "done"
    /\ render.writes[Total(render.cam) - 1] = 1
    /\ render.pixels[Total(render.cam) - 1] # Unwritten

\* the pixels whose worker has incremented the counter
Counted == {i \in DOMAIN render.task : render.task[i].pc \in {"counted", "done"}}

\* no increment is lost: the counter is the number of pixels counted and the
\* values observed are 1, 2, ... in this order; a render that returns has
\* counted to total and has reported n = total once
NoLostUpdate ==
    render.fn = "render_with_progress" /\ render.status # "panicked" =>
        /\ render.progress = Cardinality(Counted)
        /\ render.seen = [k \in 1..render.progress |-> k]
        /\ render.status = "returned" =>
            /\ render.progress = Total(render.cam)
            /\ Count(render.reports, Total(render.cam)) = 1

\* C13: the progress counter of render_with_progress, of a camera whose
\* transform has an inverse, loses no update: the
\* values observed are exactly 1..total without duplicates, the counter is
\* hsize * vsize when the render ends, and the final report (n = total) is
\* emitted exactly once.
C13_ProgressCounts ==
    render.fn = "render_with_progress" /\ render.cause # "inverse" =>
        /\ render.progress = Cardinality(Counted)
        /\ render.seen = [k \in 1..render.progress |-> k]
        /\ render.status # "running" =>
            /\ render.progress = Total(render.cam)
            /\ Count(render.reports, Total(render.cam)) = 1

----------------------------------------------------------------------------
(* The builders of Shape and Pattern *)

\* Shape::sphere
ShapeSphere ==
    [transform |-> Identity, inverse_transform |-> Identity,
     material |-> DefaultMaterial, geom |-> "sphere", uv_map |-> "spherical_map"]

\* Shape::plane
ShapePlane ==
    [transform |-> Identity, inverse_transform |-> Identity,
     material |-> DefaultMaterial, geom |-> "plane", uv_map |-> "none"]

\* Shape::with_geometry
ShapeWithGeometry(shape, g) == [shape EXCEPT !.geom = g]

\* From<Sphere> for Shape and From<Plane> for Shape
ShapeFrom(g) ==
    IF g = "sphere" THEN ShapeWithGeometry(ShapeSphere, "sphere")
    ELSE ShapeWithGeometry(ShapePlane, "plane")

\* a variant of with_transform that keeps the inverse it had
ShapeKeepsInverse(shape, t) == [shape EXCEPT !.transform = t]

\* Shape::with_transform, for a transform whose inverse() returns
ShapeWithTransform(shape, t) ==
    [shape EXCEPT !.transform = t, !.inverse_transform = MatrixInverse(t).m]

\* Shape::with_material
ShapeWithMaterial(shape, m) == [shape EXCEPT !.material = m]

\* Pattern::striped
PatternStriped(a, b) ==
    [type |-> "striped", a |-> a, b |-> b,
     transform |-> Identity, inverse_transform |-> Identity]

\* Pattern::with_transform, for a transform whose inverse() returns
PatternWithTransform(pattern, t) ==
    [pattern EXCEPT !.transform = t, !.inverse_transform = MatrixInverse(t).m]

\* the transforms given to with_transform; the last one has determinant 0
BuildTransforms ==
    {Translation(0, Scale, 0), Scaling(2 * Scale, 2 * Scale, 2 * Scale),
     MatMul(Translation(0, Scale, 0), Scaling(2 * Scale, 2 * Scale, 2 * Scale)),
     Scaling(Scale, 0, Scale)}

\* the materials given to with_material
BuildMaterials == {DefaultMaterial, [DefaultMaterial EXCEPT !.color = 80]}

\* a Shape or Pattern under construction: the value, the call made last, the
\* value before that call, how often that call has computed inverse(), and
\* the number of calls made on the value
Built(fn, value, call, before, inversions, ncalls) ==
    [fn |-> fn, value |-> value, call |-> call, before |-> before,
     inversions |-> inversions, ncalls |-> ncalls]

\* the assert! of Matrix::inverse has failed inside the call `at`
BuildPanicked(at, t) == [fn |-> "panicked", at |-> at, t |-> t]

\* Shape::sphere(), Shape::plane(), Shape::from(geometry)
ShapeCreate ==
    /\ scene = None
    /\ \/ scene' = Built("shape", ShapeSphere, "sphere", ShapeSphere, 0, 0)
       \/ scene' = Built("shape", ShapePlane, "plane", ShapePlane, 0, 0)
       \/ \E g \in {"sphere", "plane"} :
            scene' = Built("shape", ShapeFrom(g), "from", ShapeFrom(g), 0, 0)
    /\ UNCHANGED <<world, stack, ret, top, result, done, calls, xs, probe, shadow>>
    /\ UNCHANGED <<render, solve, sample>>

\* shape.with_transform(t): t.inverse() is computed once, and panics if the
\* determinant is 0
ShapeSetTransform ==
    /\ scene.fn = "shape"
    /\ scene.ncalls < MaxCalls
    /\ \E t \in BuildTransforms :
        scene' = IF MatrixInverse(t).panic
                 THEN BuildPanicked("Shape::with_transform", t)
                 ELSE Built("shape", ShapeWithTransform(scene.value, t),
                            "with_transform", scene.value,
                            1, scene.ncalls + 1)
    /\ UNCHANGED <<world, stack, ret, top, result, done, calls, xs, probe, shadow>>
    /\ UNCHANGED <<render, solve, sample>>

\* shape.with_material(m)
ShapeSetMaterial ==
    /\ scene.fn = "shape"
    /\ scene.ncalls < MaxCalls
    /\ \E m \in BuildMaterials :
        scene' = Built("shape", ShapeWithMaterial(scene.value, m),
                       "with_material", scene.value,
                       0, scene.ncalls + 1)
    /\ UNCHANGED <<world, stack, ret, top, result, done, calls, xs, probe, shadow>>
    /\ UNCHANGED <<render, solve, sample>>

\* shape.material_mut().ambient = v: only the material is reachable through
\* the reference
ShapeMaterialMut ==
    /\ scene.fn = "shape"
    /\ scene.ncalls < MaxCalls
    /\ \E v \in {10, Scale} :
        scene' = Built("shape", [scene.value EXCEPT !.material.ambient = v],
                       "material_mut", scene.value,
                       0, scene.ncalls + 1)
    /\ UNCHANGED <<world, stack, ret, top, result, done, calls, xs, probe, shadow>>
    /\ UNCHANGED <<render, solve, sample>>

\* Pattern::striped(a, b)
PatternCreate ==
    /\ scene = None
    /\ scene' = Built("pattern", PatternStriped(WHITE, BLACK), "striped",
                      PatternStriped(WHITE, BLACK), 0, 0)
    /\ UNCHANGED <<world, stack, ret, top, result, done, calls, xs, probe, shadow>>
    /\ UNCHANGED <<render, solve, sample>>

\* pattern.with_transform(t)
PatternSetTransform ==
    /\ scene.fn = "pattern"
    /\ scene.ncalls < MaxCalls
    /\ \E t \in BuildTransforms :
        scene' = IF MatrixInverse(t).panic
                 THEN BuildPanicked("Pattern::with_transform", t)
                 ELSE Built("pattern", PatternWithTransform(scene.value, t),
                            "with_transform", scene.value,
                            1, scene.ncalls + 1)
    /\ UNCHANGED <<world, stack, ret, top, result, done, calls, xs, probe, shadow>>
    /\ UNCHANGED <<render, solve, sample>>

\* the value is moved into the scene, or the panic has ended the program
BuildDrop ==
    /\ scene # None
    /\ scene' = None
    /\ UNCHANGED <<world, stack, ret, top, result, done, calls, xs, probe, shadow>>
    /\ UNCHANGED <<render, solve, sample>>

InitBuild ==
    /\ world = EmptyWorld
    /\ stack = <<>>
    /\ ret = BLACK
    /\ top = None
    /\ result = NoResult
    /\ done = None
    /\ calls = NoCalls
    /\ xs = <<>>
    /\ probe = None
    /\ shadow = None
    /\ scene = None
    /\ render = None
    /\ solve = None
    /\ sample = None

NextBuild ==
    \/ ShapeCreate
    \/ ShapeSetTransform
    \/ ShapeSetMaterial
    \/ ShapeMaterialMut
    \/ PatternCreate
    \/ PatternSetTransform
    \/ BuildDrop

SpecBuild == InitBuild /\ [][NextBuild]_vars

----------------------------------------------------------------------------
(* Properties of the builders *)

\* a Shape or Pattern is under construction
Building == scene.fn \in {"shape", "pattern"}

\* inv is the inverse of t: both products are the identity
IsInverseOf(inv, t) == MatMul(t, inv) = Identity /\ MatMul(inv, t) = Identity

\* the translation along y by which the worlds place their shapes has the
\* inverse the worlds use for it
TranslationInverse ==
    \A ty \in {-Scale, 0, Scale, 3 * Scale} :
        MatrixInverse(Translation(0, ty, 0)).m = Translation(0, Inverse(ty), 0)

\* C20: after any sequence of builder or mutator calls the cached
\* inverse_transform is the inverse of the current transform: with_transform
\* recomputes it exactly once per call, and with_material and material_mut
\* leave transform and inverse_transform unchanged.
C20_CachedInverse ==
    Building =>
        /\ IsInverseOf(scene.value.inverse_transform, scene.value.transform)
        /\ scene.call = "with_transform" =>
            /\ scene.value.inverse_transform
                   = MatrixInverse(scene.value.transform).m
            /\ scene.inversions = 1
        /\ scene.call \in {"with_material", "material_mut"} =>
            /\ scene.value.transform = scene.before.transform
            /\ scene.value.inverse_transform = scene.before.inverse_transform
            /\ scene.inversions = 0

\* a shape that was given a transform, then another material, then a change
\* through material_mut, and still caches the inverse of a transform that is
\* not the identity
C20_Witness ==
    /\ scene.fn = "shape"
    /\ scene.call = "material_mut"
    /\ scene.ncalls = 3
    /\ scene.inversions = 0
    /\ scene.value.material # scene.before.material
    /\ scene.value.transform = MatMul(Translation(0, Scale, 0),
                                      Scaling(2 * Scale, 2 * Scale, 2 * Scale))
    /\ scene.value.inverse_transform # Identity
    /\ IsInverseOf(scene.value.inverse_transform, scene.value.transform)

\* with_transform of a Shape or Pattern fails in the call itself when the
\* transform has no inverse, so no Shape or Pattern holds such a transform
FailsAtAssignment ==
    /\ Building => ~MatrixInverse(scene.value.transform).panic
    /\ scene.fn = "panicked" => MatrixInverse(scene.t).panic

\* C15: a transform that cannot be inverted is reported as a failure where it
\* is assigned to a Shape, Pattern or Camera, before any rendering starts:
\* none of them holds such a transform, and no render step fails on a matrix
\* inversion.
C15_FailsAtAssignment ==
    /\ FailsAtAssignment
    /\ render.fn = "camera" => ~MatrixInverse(render.cam.transform).panic
    /\ Rendering => render.cause # "inverse"

----------------------------------------------------------------------------
(* Ray::new and the local intersection algorithms *)

\* the origins and the directions given to Ray::new: directions along the
\* axes and oblique ones, of length 1 and 2, one that is nearly level, and
\* the zero vector
SolveOrigins ==
    {Vec(0, y, z) : y \in {-Scale, 0, 60, Scale, 2 * Scale}, z \in {-5 * Scale, 0}}

SolveDirections ==
    {Vec(0, 0, Scale), Vec(0, 0, -Scale), Vec(0, 0, 2 * Scale),
     Vec(0, Scale, 0), Vec(0, -Scale, 0), Vec(0, -50, 0),
     Vec(0, 60, 80), Vec(0, -60, 80),
     Vec(0, 1, Scale), Vec(0, -1, Scale), Vec(0, EPSILON, Scale), Vec(0, 0, 0)}

\* the shapes World::intersections is called with: the unit sphere and the
\* plane y = 0
SolveWorld ==
    [objects |-> <<NewShape("sphere"), NewShape("plane")>>,
     light |-> Light(Vec(0, 1000, 1000), WHITE)]

\* the coefficients of Sphere::local_intersect and its discriminant
SphereQuadratic(ray_obj) ==
    LET sphere_to_ray == VSub(ray_obj.origin, ORIGIN)
        a == Dot(ray_obj.direction, ray_obj.direction)
        b == 2 * Dot(ray_obj.direction, sphere_to_ray)
        c == Dot(sphere_to_ray, sphere_to_ray) - Scale
    IN  [a |-> a, b |-> b, c |-> c, discriminant |-> FMul(b, b) - 4 * FMul(a, c)]

\* Ray::new: the two fields are stored as they are given
RayNew ==
    /\ solve = None
    /\ \E origin \in SolveOrigins, direction \in SolveDirections :
        solve' = [fn |-> "ray", ray |-> Ray(origin, direction)]
    /\ UNCHANGED <<world, stack, ret, top, result, done, calls, xs, probe, shadow>>
    /\ UNCHANGED <<scene, render, sample>>

\* Sphere::new().local_intersect(ray)
SphereIntersect ==
    /\ solve.fn = "ray"
    /\ solve' = [fn |-> "sphere", ray |-> solve.ray,
                 hits |-> SphereLocalIntersect(solve.ray)]
    /\ UNCHANGED <<world, stack, ret, top, result, done, calls, xs, probe, shadow>>
    /\ UNCHANGED <<scene, render, sample>>

\* Plane::new().local_intersect(ray)
PlaneIntersect ==
    /\ solve.fn = "ray"
    /\ solve' = [fn |-> "plane", ray |-> solve.ray,
                 hits |-> PlaneLocalIntersect(solve.ray)]
    /\ UNCHANGED <<world, stack, ret, top, result, done, calls, xs, probe, shadow>>
    /\ UNCHANGED <<scene, render, sample>>

\* world.intersections(ray)
WorldIntersect ==
    /\ solve.fn = "ray"
    /\ \E out \in WorldIntersections(world.objects, solve.ray) :
        solve' = [fn |-> "world", ray |-> solve.ray, out |-> out]
    /\ UNCHANGED <<world, stack, ret, top, result, done, calls, xs, probe, shadow>>
    /\ UNCHANGED <<scene, render, sample>>

\* the caller is done with the ray and its hits
SolveDrop ==
    /\ solve.fn \in {"sphere", "plane", "world"}
    /\ solve' = None
    /\ UNCHANGED <<world, stack, ret, top, result, done, calls, xs, probe, shadow>>
    /\ UNCHANGED <<scene, render, sample>>

InitSolve ==
    /\ world = SolveWorld
    /\ stack = <<>>
    /\ ret = BLACK
    /\ top = None
    /\ result = NoResult
    /\ done = None
    /\ calls = NoCalls
    /\ xs = <<>>
    /\ probe = None
    /\ shadow = None
    /\ scene = None
    /\ render = None
    /\ solve = None
    /\ sample = None

NextSolve ==
    \/ RayNew
    \/ SphereIntersect
    \/ PlaneIntersect
    \/ WorldIntersect
    \/ SolveDrop

SpecSolve == InitSolve /\ [][NextSolve]_vars

----------------------------------------------------------------------------
(* Properties of Ray::new and of the local intersection algorithms *)

\* t is a number: neither NaN nor an infinity
Finite(t) == t # NaN /\ t # Infinity /\ t # -Infinity

\* the direction of the ray built last is not the zero vector
HasDirection == solve.ray.direction # Vec(0, 0, 0)

\* the coordinates of the ray are multiples of 0.1, so that their products are
\* on the fixed-point grid and no coefficient of the quadratic is rounded
OnGrid ==
    \A v \in {solve.ray.origin, solve.ray.direction} :
        v.x % 10 = 0 /\ v.y % 10 = 0 /\ v.z % 10 = 0

\* C16: a zero-length ray direction is rejected at construction: no Ray
\* holds the zero vector as its direction.
C16_ZeroDirectionRejected ==
    solve # None => HasDirection

\* the ray of the sphere algorithm starts where it touches the sphere
StartsAtTangentPoint ==
    SphereQuadratic(solve.ray).b = 0 /\ SphereQuadratic(solve.ray).c = 0

\* C17: numerical edge cases never raise: a ray parallel to or lying in a
\* plane yields no intersection; a sphere discriminant of exactly zero,
\* including a ray that starts at its own tangent point, yields a double hit
\* with well-defined t values; World::intersections sorts without panicking.
C17_EdgeCasesNeverRaise ==
    solve # None /\ HasDirection =>
        /\ solve.fn = "plane" /\ solve.ray.direction.y = 0 => solve.hits = <<>>
        /\ solve.fn = "sphere" /\ OnGrid
                /\ SphereQuadratic(solve.ray).discriminant = 0 =>
            /\ Len(solve.hits) = 2
            /\ Finite(solve.hits[1]) /\ Finite(solve.hits[2])
            /\ solve.hits[1] = solve.hits[2]
        /\ solve.fn = "world" => ~solve.out.panic

\* the edge cases that do not start at a tangent point are as C17 says
EdgeCasesOffTangentStart ==
    solve # None /\ HasDirection /\ ~StartsAtTangentPoint =>
        /\ solve.fn = "plane" /\ solve.ray.direction.y = 0 => solve.hits = <<>>
        /\ solve.fn = "sphere" /\ OnGrid
                /\ SphereQuadratic(solve.ray).discriminant = 0 =>
            /\ Len(solve.hits) = 2
            /\ Finite(solve.hits[1]) /\ Finite(solve.hits[2])
            /\ solve.hits[1] = solve.hits[2]
        /\ solve.fn = "world" => ~solve.out.panic

\* C18: Plane::local_intersect returns no hit when |direction.y| < EPSILON,
\* whatever the origin, and otherwise exactly one hit, at
\* t = -origin.y / direction.y, where the ray is on the plane.
C18_PlaneIntersect ==
    solve.fn = "plane" =>
        IF Abs(solve.ray.direction.y) < EPSILON
        THEN solve.hits = <<>>
        ELSE /\ Len(solve.hits) = 1
             /\ solve.hits[1] = FDiv(-solve.ray.origin.y, solve.ray.direction.y)
             /\ Abs(Position(solve.ray, solve.hits[1]).y) < EPSILON

\* a ray that starts off the plane and descends, but by less than EPSILON,
\* has no hit
C18_Witness ==
    /\ solve.fn = "plane"
    /\ solve.ray.origin.y > 0
    /\ solve.ray.direction.y < 0
    /\ Abs(solve.ray.direction.y) < EPSILON
    /\ solve.hits = <<>>

\* a t^2 + b t + c for the coefficients of the ray
Residual(q, t) == FMul(q.a, FMul(t, t)) + FMul(q.b, t) + q.c

\* the hits of the sphere are none, or two roots lo <= hi of the quadratic
TwoRoots(q, hits) ==
    /\ hits = <<>> <=> q.discriminant < 0
    /\ hits # <<>> =>
        /\ Len(hits) = 2
        /\ Finite(hits[1]) /\ Finite(hits[2])
        /\ hits[1] <= hits[2]
        /\ Abs(Residual(q, hits[1])) < EPSILON
        /\ Abs(Residual(q, hits[2])) < EPSILON

\* C19: Sphere::local_intersect returns none exactly when the discriminant is
\* negative, and otherwise two roots lo <= hi of a t^2 + b t + c = 0,
\* whichever branch of the solver is taken.
C19_SphereRoots ==
    solve.fn = "sphere" /\ HasDirection /\ OnGrid =>
        TwoRoots(SphereQuadratic(solve.ray), solve.hits)

\* the roots are as C19 says for every ray that does not start at a tangent
\* point
SphereRootsOffTangentStart ==
    solve.fn = "sphere" /\ HasDirection /\ OnGrid /\ ~StartsAtTangentPoint =>
        TwoRoots(SphereQuadratic(solve.ray), solve.hits)

----------------------------------------------------------------------------
(* Material::shade on its own *)

\* the materials, lights, eyes and normals shade is called with, at the
\* position (0, 0, 0): lights in front of, above and behind the surface
ShadeMaterials ==
    {DefaultMaterial, [DefaultMaterial EXCEPT !.color = 80],
     [DefaultMaterial EXCEPT !.ambient = 30, !.specular = 50]}

ShadeLights ==
    {Light(p, i) : p \in {Vec(0, 0, -10 * Scale), Vec(0, 10 * Scale, -10 * Scale),
                          Vec(0, 0, 10 * Scale), Vec(0, -10 * Scale, 0)},
                   i \in {WHITE, 50}}

ShadeEyes == {Vec(0, 0, -Scale), Vec(0, 71, -71), Vec(0, -71, -71)}

ShadeNormals == {Vec(0, 0, -Scale), Vec(0, Scale, 0)}

\* material.shade(object, position, light, eye, normal, in_shadow)
ShadeCall ==
    /\ sample = None
    /\ \E material \in ShadeMaterials, light \in ShadeLights, eye \in ShadeEyes,
          normal \in ShadeNormals, in_shadow \in BOOLEAN :
        sample' = [fn |-> "shade", material |-> material, position |-> ORIGIN,
                   light |-> light, eye |-> eye, normal |-> normal,
                   in_shadow |-> in_shadow,
                   value |-> Shade(material, ORIGIN, light, eye, normal, in_shadow)]
    /\ UNCHANGED <<world, stack, ret, top, result, done, calls, xs, probe, shadow>>
    /\ UNCHANGED <<scene, render, solve>>

\* the caller is done with the value
SampleDrop ==
    /\ sample # None
    /\ sample' = None
    /\ UNCHANGED <<world, stack, ret, top, result, done, calls, xs, probe, shadow>>
    /\ UNCHANGED <<scene, render, solve>>

\* nothing has been called yet
InitSample ==
    /\ world = EmptyWorld
    /\ stack = <<>>
    /\ ret = BLACK
    /\ top = None
    /\ result = NoResult
    /\ done = None
    /\ calls = NoCalls
    /\ xs = <<>>
    /\ probe = None
    /\ shadow = None
    /\ scene = None
    /\ render = None
    /\ solve = None
    /\ sample = None

NextShade ==
    \/ ShadeCall
    \/ SampleDrop

SpecShade == InitSample /\ [][NextShade]_vars

\* the terms of the Phong model for the arguments of the call of shade
AmbientTerm ==
    FMul(FMul(sample.material.color, sample.light.intensity), sample.material.ambient)

LightVector == Normalize(VSub(sample.light.position, sample.position))

LightDotNormal == Dot(LightVector, sample.normal)

DiffuseTerm ==
    FMul(FMul(FMul(sample.material.color, sample.light.intensity),
              sample.material.diffuse),
         LightDotNormal)

ReflectDotEye == Dot(VNeg(Reflect(LightVector, sample.normal)), sample.eye)

\* C21: Material::shade returns only the ambient term whenever the point is
\* in shadow or the light is on the far side of the surface, and the specular
\* term is zero whenever the reflected light direction dotted with the eye
\* vector is <= 0: the value is then the ambient plus the diffuse term.
C21_ShadeAmbientOnly ==
    sample.fn = "shade" =>
        /\ sample.in_shadow \/ LightDotNormal < 0 => sample.value = AmbientTerm
        /\ ~sample.in_shadow /\ LightDotNormal >= 0 /\ ReflectDotEye <= 0 =>
            sample.value = AmbientTerm + DiffuseTerm

\* a point in shadow whose light is in front of the surface and reflects
\* towards the eye: without the shadow it would be brighter than ambient
C21_Witness ==
    /\ sample.fn = "shade"
    /\ sample.in_shadow
    /\ LightDotNormal > 0
    /\ ReflectDotEye > 0
    /\ sample.value = AmbientTerm
    /\ Shade(sample.material, sample.position, sample.light, sample.eye,
             sample.normal, FALSE) > AmbientTerm

----------------------------------------------------------------------------
(* Pattern: the choice of a source at a pattern-space point *)

\* EPS_PLANE, 1e-6, is below the grid: the smallest positive grid value stands
\* for it, so that |y| < EPS_PLANE holds for y = 0 alone
EPS_PLANE == 1

\* f64::floor, as an integer
Floor(x) == x \div Scale

\* floor_eps: the floor of x + EPS_FLOOR for x >= 0 and of x - EPS_FLOOR for
\* x < 0.  EPS_FLOOR, 1e-9, is below the grid: half a grid step stands for it,
\* which gives every grid value the floor that 1e-9 gives it
FloorEps(x) ==
    LET bias == IF x >= 0 THEN 1 ELSE -1
    IN  (2 * x + bias) \div (2 * Scale)

\* Pattern::stripe_at: the source sampled at p
StripeAt(p) == IF Floor(p.x) % 2 = 0 THEN "a" ELSE "b"

\* Pattern::ring_at
RingAt(p) ==
    IF Floor(FSqrt(FMul(p.x, p.x) + FMul(p.z, p.z))) % 2 = 0 THEN "a" ELSE "b"

\* Pattern::checker_at
CheckerAt(p) ==
    LET ix == FloorEps(p.x)
        iz == FloorEps(p.z)
        s == IF Abs(p.y) < EPS_PLANE THEN ix + iz ELSE ix + FloorEps(p.y) + iz
    IN  IF s % 2 = 0 THEN "a" ELSE "b"

\* the coordinates around the cell boundaries -2, -1, 0, 1 and 2
CheckerCoordinates ==
    {-2 * Scale, -Scale - 1, -Scale, -Scale + 1, -1, 0, 1, Scale - 1, Scale,
     Scale + 1, 2 * Scale}

\* pattern.checker_at(p, object) for a pattern with two solid sources
CheckerCall ==
    /\ sample = None
    /\ \E x \in CheckerCoordinates, y \in CheckerCoordinates,
          z \in CheckerCoordinates :
        sample' = [fn |-> "checker_at", p |-> Vec(x, y, z),
                   value |-> CheckerAt(Vec(x, y, z))]
    /\ UNCHANGED <<world, stack, ret, top, result, done, calls, xs, probe, shadow>>
    /\ UNCHANGED <<scene, render, solve>>

NextChecker ==
    \/ CheckerCall
    \/ SampleDrop

SpecChecker == InitSample /\ [][NextChecker]_vars

\* the source of the cell of p: a when the floors of x, y and z add up to an
\* even number
FloorParity(p) ==
    IF (Floor(p.x) + Floor(p.y) + Floor(p.z)) % 2 = 0 THEN "a" ELSE "b"

\* C22: the 3-D checker pattern switches between its two sources exactly at
\* the integer boundaries of x, of y and of z: the source chosen at p is a
\* when floor(x) + floor(y) + floor(z) is even and b when it is odd.
C22_CheckerParity ==
    sample.fn = "checker_at" => sample.value = FloorParity(sample.p)

\* x is a negative integer
NegativeInteger(x) == x < 0 /\ x % Scale = 0

\* the checker is as C22 says at every point none of whose coordinates is a
\* negative integer
CheckerOffNegativeIntegers ==
    sample.fn = "checker_at"
        /\ ~NegativeInteger(sample.p.x) /\ ~NegativeInteger(sample.p.y)
        /\ ~NegativeInteger(sample.p.z)
        => sample.value = FloorParity(sample.p)

----------------------------------------------------------------------------
(* Pattern: sources, nesting and sampling *)

\* Source::Solid(c) and Source::Pattern(Box<Pattern>): the box is the index of
\* the pattern it owns in the sequence of all patterns built
Solid(c) == [kind |-> "solid", c |-> c]

Boxed(id) == [kind |-> "pattern", id |-> id]

\* a variant of the conversion in which the pattern under construction can be
\* given to itself as a source
BoxedWithSelf(live, new) == {Boxed(id) : id \in live \cup {new}}

\* From<Pattern> for Source: a pattern that the caller owns is moved into a box
BoxedSources(live, new) == {Boxed(id) : id \in live}

\* Pattern::with_type, and the constructors gradient, ring, checker and
\* checker_uv, which differ from striped in the type alone
PatternWithType(pattern, type) == [pattern EXCEPT !.type = type]

PatternTypes == {"striped", "gradient", "ring", "checker", "checker_uv"}

\* Pattern::gradient_at: ca + (cb - ca) * t
GradientAt(p, ca, cb) == ca + FMul(cb - ca, p.x - Floor(p.x) * Scale)

\* Pattern::checker_uv_at for a 2 x 2 board, given the pair (u, v) of the
\* shape's uv_map: u and v are clamped into [0, 1 - EPS_FLOOR] and scaled
CheckerUvAt(uv) ==
    LET ix == IF uv[1] >= Scale THEN 1 ELSE FloorEps(2 * (IF uv[1] < 0 THEN 0 ELSE uv[1]))
        iy == IF uv[2] >= Scale THEN 1 ELSE FloorEps(2 * (IF uv[2] < 0 THEN 0 ELSE uv[2]))
    IN  IF (ix + iy) % 2 = 0 THEN "a" ELSE "b"

\* the pairs (u, v) a uv_map may return
UVs == {<<0, 0>>, <<Scale, 40>>}

\* the source a pattern that is no gradient samples at the pattern-space
\* point p of an object
SourceAt(type, p, object, uv) ==
    IF type = "striped" THEN StripeAt(p)
    ELSE IF type = "ring" THEN RingAt(p)
    ELSE IF type = "checker" THEN CheckerAt(p)
    ELSE IF object.uv_map = "none" THEN "a"
    ELSE CheckerUvAt(uv)

\* Pattern::pattern_at_object, lines 139-140: the pattern-space point
PatternPoint(pattern, object, point) ==
    MulPoint(pattern.inverse_transform, MulPoint(object.inverse_transform, point))

\* the shapes and the points patterns are sampled with
PatternObjects == {ShapeSphere, ShapeWithTransform(ShapePlane, Translation(Scale, 0, 0))}

SamplePoints == {Vec(50, 0, 0), Vec(150, 50, 0)}

\* one call of pattern_at_object on the stack
SampleFrame(id, object, point) ==
    [id |-> id, object |-> object, point |-> point, pc |-> "start", ca |-> BLACK]

NoValue == [set |-> FALSE, c |-> BLACK]

\* the caller starts to build patterns
PatternsBegin ==
    /\ sample = None
    /\ sample' = [fn |-> "patterns", heap |-> <<>>, live |-> {}, stack |-> <<>>,
                  ret |-> NoValue, root |-> 0, depth |-> 0, steps |-> 0]
    /\ UNCHANGED <<world, stack, ret, top, result, done, calls, xs, probe, shadow>>
    /\ UNCHANGED <<scene, render, solve>>

\* Pattern::striped(a, b), gradient, ring, checker, checker_uv: the sources are
\* colors or patterns the caller owns, which move into the new pattern
PatternBuild ==
    /\ sample.fn = "patterns"
    /\ sample.stack = <<>>
    /\ Len(sample.heap) < MaxNodes
    /\ LET new == Len(sample.heap) + 1
       IN  \E type \in PatternTypes,
              a \in {Solid(WHITE)} \cup BoxedSources(sample.live, new),
              b \in {Solid(BLACK)} \cup BoxedSources(sample.live, new) :
            /\ a # b
            /\ sample' = [sample EXCEPT
                 !.heap = Append(@, PatternWithType(PatternStriped(a, b), type)),
                 !.live = (@ \ {src.id : src \in {x \in {a, b} : x.kind = "pattern"}})
                              \cup {new},
                 !.ret = NoValue, !.root = 0, !.depth = 0, !.steps = 0]
    /\ UNCHANGED <<world, stack, ret, top, result, done, calls, xs, probe, shadow>>
    /\ UNCHANGED <<scene, render, solve>>

\* pattern.with_transform(t) on a pattern the caller owns
PatternMove ==
    /\ sample.fn = "patterns"
    /\ sample.stack = <<>>
    /\ \E id \in sample.live :
        /\ sample.heap[id].transform = Identity
        /\ sample' = [sample EXCEPT
             !.heap[id] = PatternWithTransform(@, Translation(Scale, 0, 0)),
             !.ret = NoValue, !.root = 0, !.depth = 0, !.steps = 0]
    /\ UNCHANGED <<world, stack, ret, top, result, done, calls, xs, probe, shadow>>
    /\ UNCHANGED <<scene, render, solve>>

\* pattern.pattern_at_object(object, point) on a pattern the caller owns
SampleBegin ==
    /\ sample.fn = "patterns"
    /\ sample.stack = <<>>
    /\ \E id \in sample.live, object \in PatternObjects, point \in SamplePoints :
        sample' = [sample EXCEPT
             !.stack = <<SampleFrame(id, object, point)>>,
             !.ret = NoValue, !.root = id, !.depth = 1, !.steps = 0]
    /\ UNCHANGED <<world, stack, ret, top, result, done, calls, xs, probe, shadow>>
    /\ UNCHANGED <<scene, render, solve>>

\* the frame on top of the stack of the sampling
SampleTop == sample.stack[Len(sample.stack)]

\* the state after sample_source(src, p, object), with src the source of
\* pattern chosen at the pattern-space point p of the frame on top: a solid
\* source returns its color, a boxed pattern is sampled at p against the same
\* object
SourceSampled(src, object, p) ==
    IF src.kind = "solid"
    THEN [sample EXCEPT !.ret = [set |-> TRUE, c |-> src.c], !.steps = @ + 1]
    ELSE [sample EXCEPT
            !.stack = Append(@, SampleFrame(src.id, object, p)),
            !.steps = @ + 1,
            !.depth = IF Len(sample.stack) + 1 > @ THEN Len(sample.stack) + 1 ELSE @]

\* the side whose source the frame samples next: a gradient samples a, then
\* b; every other pattern samples the source its type chooses at p
SideOf(pattern, frame, uv) ==
    IF pattern.type = "gradient"
    THEN (IF frame.pc = "start" THEN "a" ELSE "b")
    ELSE SourceAt(pattern.type, PatternPoint(pattern, frame.object, frame.point),
                  frame.object, uv)

\* the frame on top of the stack calls sample_source
SampleSource ==
    /\ sample.fn = "patterns"
    /\ sample.stack # <<>>
    /\ ~sample.ret.set
    /\ \E uv \in UVs :
        sample' = SourceSampled(
            IF SideOf(sample.heap[SampleTop.id], SampleTop, uv) = "a"
            THEN sample.heap[SampleTop.id].a ELSE sample.heap[SampleTop.id].b,
            SampleTop.object,
            PatternPoint(sample.heap[SampleTop.id], SampleTop.object, SampleTop.point))
    /\ UNCHANGED <<world, stack, ret, top, result, done, calls, xs, probe, shadow>>
    /\ UNCHANGED <<scene, render, solve>>

\* sample_source has returned to the frame on top: a gradient that has its
\* first color asks for the second, every other frame returns
SampleResume ==
    /\ sample.fn = "patterns"
    /\ sample.stack # <<>>
    /\ sample.ret.set
    /\ LET frame == SampleTop
           pattern == sample.heap[frame.id]
           p == PatternPoint(pattern, frame.object, frame.point)
           n == Len(sample.stack)
       IN  sample' =
             IF pattern.type = "gradient" /\ frame.pc = "start"
             THEN [sample EXCEPT !.stack[n].pc = "second",
                                 !.stack[n].ca = sample.ret.c,
                                 !.ret = NoValue, !.steps = @ + 1]
             ELSE [sample EXCEPT
                     !.stack = SubSeq(@, 1, n - 1),
                     !.steps = @ + 1,
                     !.ret.c = IF pattern.type = "gradient"
                               THEN GradientAt(p, frame.ca, sample.ret.c)
                               ELSE sample.ret.c]
    /\ UNCHANGED <<world, stack, ret, top, result, done, calls, xs, probe, shadow>>
    /\ UNCHANGED <<scene, render, solve>>

\* the caller drops its patterns, between two calls
PatternsDrop ==
    /\ sample.fn = "patterns"
    /\ sample.stack = <<>>
    /\ sample' = None
    /\ UNCHANGED <<world, stack, ret, top, result, done, calls, xs, probe, shadow>>
    /\ UNCHANGED <<scene, render, solve>>

NextPattern ==
    \/ PatternsBegin
    \/ PatternBuild
    \/ PatternMove
    \/ SampleBegin
    \/ SampleSource
    \/ SampleResume
    \/ PatternsDrop

SpecPattern ==
    /\ InitSample
    /\ [][NextPattern]_vars

(* Properties of SpecPattern *)

Patterns == sample.fn = "patterns"

\* the patterns a pattern owns through its two sources
Owned(pattern) == {src.id : src \in {x \in {pattern.a, pattern.b} : x.kind = "pattern"}}

\* every boxed pattern was built before its owner: no pattern is reachable
\* from itself
Acyclic ==
    Patterns => \A id \in 1..Len(sample.heap) : \A o \in Owned(sample.heap[id]) : o < id

\* no pattern is owned twice, nor owned and still in the caller's hands
OwnedOnce ==
    Patterns =>
        /\ \A i, j \in 1..Len(sample.heap) :
             i # j => Owned(sample.heap[i]) \cap Owned(sample.heap[j]) = {}
        /\ \A i \in 1..Len(sample.heap) : Owned(sample.heap[i]) \cap sample.live = {}

RECURSIVE Nesting(_, _)
\* the nesting depth of the tree of pattern id
Nesting(heap, id) ==
    LET below == {Nesting(heap, o) : o \in Owned(heap[id])}
    IN  1 + (IF below = {} THEN 0 ELSE CHOOSE n \in below : \A m \in below : m <= n)

RECURSIVE AllGradient(_, _)
\* every pattern of the tree of pattern id is a gradient
AllGradient(heap, id) ==
    /\ heap[id].type = "gradient"
    /\ \A o \in Owned(heap[id]) : AllGradient(heap, o)

Sampling == Patterns /\ sample.stack # <<>>

Sampled == Patterns /\ sample.root # 0 /\ sample.stack = <<>> /\ sample.ret.set

\* every nested call is made with the object of the outermost call, at the
\* pattern-space point of its caller
SameObject ==
    Sampling =>
        \A i \in 2..Len(sample.stack) :
            /\ sample.stack[i].object = sample.stack[1].object
            /\ sample.stack[i].point =
                 PatternPoint(sample.heap[sample.stack[i - 1].id],
                              sample.stack[i - 1].object, sample.stack[i - 1].point)
            /\ sample.stack[i].id \in Owned(sample.heap[sample.stack[i - 1].id])

DepthAtMostNesting ==
    Patterns /\ sample.root # 0 =>
        /\ Len(sample.stack) <= sample.depth
        /\ sample.depth <= Nesting(sample.heap, sample.root)

DepthOfGradients ==
    Sampled /\ AllGradient(sample.heap, sample.root) =>
        sample.depth = Nesting(sample.heap, sample.root)

RECURSIVE TreeSize(_, _)
\* the number of patterns in the tree of pattern id
TreeSize(heap, id) ==
    LET owned == Owned(heap[id])
    IN  IF owned = {} THEN 1
        ELSE LET o == CHOOSE x \in owned : TRUE
             IN  IF owned = {o} THEN 1 + TreeSize(heap, o)
                 ELSE 1 + TreeSize(heap, o) + TreeSize(heap, CHOOSE x \in owned : x # o)

\* a sampling is over after at most four steps for each pattern of the tree
\* (two calls of sample_source and their two returns, in a gradient), and
\* until then its next step is defined
StepsBounded ==
    /\ Sampling =>
         /\ SampleTop.id \in 1..Len(sample.heap)
         /\ sample.steps < 4 * TreeSize(sample.heap, sample.root)
    /\ Sampled => sample.steps <= 4 * TreeSize(sample.heap, sample.root)

\* C23 as stated: a finished sampling has gone exactly as deep as the
\* pattern tree is nested, each nested source was sampled against the shape of
\* the outer pattern, and no pattern is reachable from itself
C23_DepthEqualsNesting ==
    /\ Acyclic
    /\ SameObject
    /\ Sampled => sample.depth = Nesting(sample.heap, sample.root)

\* C23: sampling a pattern whose sources are nested patterns terminates for
\* every pattern that can be built; the recursion goes at most as deep as the
\* pattern tree is nested, and exactly as deep when every pattern of the tree
\* is a gradient, which samples both of its sources; a nested source is
\* sampled against the same shape as the outer pattern, and no pattern is
\* reachable from itself
C23_SamplingTerminates ==
    /\ Acyclic
    /\ OwnedOnce
    /\ SameObject
    /\ StepsBounded
    /\ DepthAtMostNesting
    /\ DepthOfGradients

\* a checker_uv pattern whose sampled source is a pattern has been sampled
\* two calls deep
C23_Witness ==
    /\ Sampled
    /\ sample.heap[sample.root].type = "checker_uv"
    /\ sample.depth = 2
    /\ Nesting(sample.heap, sample.root) = 2

----------------------------------------------------------------------------
(* Matrix: transforming rays, and inverting *)

\* Ray::transform(m)
RayTransformBy(ray, m) == Ray(MulPoint(m, ray.origin), MulVector(m, ray.direction))

MatrixOffsets == {-3 * Scale, 0, 50, 2 * Scale}

MatrixRays ==
    {Ray(o, d) : o \in {Vec(Scale, 2 * Scale, 3 * Scale), Vec(0, -50, 0)},
                 d \in {Vec(0, Scale, 0), Vec(30, 0, -Scale)}}

RayMatrices ==
    {Translation(x, y, z) : x, y, z \in MatrixOffsets}
        \cup {Scaling(2 * Scale, 3 * Scale, 4 * Scale), Scaling(50, Scale, -Scale)}

\* ray.transform(m)
RayTransformCall ==
    /\ sample = None
    /\ \E ray \in MatrixRays, m \in RayMatrices :
        sample' = [fn |-> "ray_transform", ray |-> ray, m |-> m,
                   value |-> RayTransformBy(ray, m)]
    /\ UNCHANGED <<world, stack, ret, top, result, done, calls, xs, probe, shadow>>
    /\ UNCHANGED <<scene, render, solve>>

\* the matrices that are inverted: translations, scalings, and matrices whose
\* first two rows are nearly parallel
NearlySingular(a, b) ==
    <<<<a, a, 0, 0>>, <<a, b, 0, 0>>, <<0, 0, Scale, 0>>, <<0, 0, 0, Scale>>>>

InverseMatrices ==
    {Translation(x, y, z) : x, y, z \in {0, 50, 2 * Scale}}
        \cup {Scaling(2 * Scale, 50, 4 * Scale), Scaling(Scale, Scale, 0)}
        \cup {NearlySingular(a, b) : a \in {10, 15, 2 * Scale}, b \in {25, 2 * Scale, 3 * Scale}}

OtherMatrices ==
    {Identity, Translation(Scale, 0, -Scale), Scaling(3 * Scale, 2 * Scale, Scale),
     NearlySingular(3 * Scale, -9 * Scale)}

\* m.inverse(), and with it m * m.inverse(), m.inverse().inverse() and
\* a * m * m.inverse(); inverse() panics on a zero determinant
InverseCall ==
    /\ sample = None
    /\ \E m \in InverseMatrices, a \in OtherMatrices :
        LET inv == MatrixInverse(m)
        IN  sample' =
              IF inv.panic
              THEN [fn |-> "inverse", m |-> m, a |-> a, panic |-> TRUE,
                    inverse |-> ZeroMatrix, product |-> ZeroMatrix,
                    twice |-> [panic |-> TRUE, m |-> ZeroMatrix], amm |-> ZeroMatrix]
              ELSE [fn |-> "inverse", m |-> m, a |-> a, panic |-> FALSE,
                    inverse |-> inv.m, product |-> MatMul(m, inv.m),
                    twice |-> MatrixInverse(inv.m),
                    amm |-> MatMul(MatMul(a, m), inv.m)]
    /\ UNCHANGED <<world, stack, ret, top, result, done, calls, xs, probe, shadow>>
    /\ UNCHANGED <<scene, render, solve>>

NextMatrix ==
    \/ RayTransformCall
    \/ InverseCall
    \/ SampleDrop

SpecMatrix == InitSample /\ [][NextMatrix]_vars

(* Properties of SpecMatrix *)

\* the first three coordinates of the product of m and the column (x, y, z, w)
Homogeneous(m, t, w) ==
    [k \in 1..3 |->
        FMul(m[k][1], t.x) + FMul(m[k][2], t.y) + FMul(m[k][3], t.z) + FMul(m[k][4], w)]

AsColumn(t) == <<t.x, t.y, t.z>>

IsTranslation(m) == m = Translation(m[1][4], m[2][4], m[3][4])

\* C24: a 4x4 transform times a Point uses the fourth coordinate 1 and times
\* a Vector the fourth coordinate 0; Ray::transform by a translation moves the
\* origin by the offsets and keeps the direction
C24_RayTransform ==
    sample.fn = "ray_transform" =>
        /\ AsColumn(sample.value.origin) = Homogeneous(sample.m, sample.ray.origin, Scale)
        /\ AsColumn(sample.value.direction) = Homogeneous(sample.m, sample.ray.direction, 0)
        /\ IsTranslation(sample.m) =>
            /\ sample.value.origin =
                 VAdd(sample.ray.origin, Vec(sample.m[1][4], sample.m[2][4], sample.m[3][4]))
            /\ sample.value.direction = sample.ray.direction

\* a ray has been moved by a translation with three offsets other than zero
C24_Witness ==
    /\ sample.fn = "ray_transform"
    /\ IsTranslation(sample.m)
    /\ sample.m[1][4] # 0 /\ sample.m[2][4] # 0 /\ sample.m[3][4] # 0
    /\ sample.value.origin # sample.ray.origin
    /\ sample.value.direction = sample.ray.direction

\* the comparison tolerance of matrices, less than a step of the grid, taken
\* as one step
MATRIX_EPSILON == 1

\* abs_diff_eq of two matrices
MatrixAbsDiffEq(m, other) ==
    \A r, c \in 1..4 :
        /\ m[r][c] # NaN /\ other[r][c] # NaN
        /\ Abs(m[r][c] - other[r][c]) <= MATRIX_EPSILON

\* C25: for every matrix m that inverse() accepts, m * m.inverse() is the
\* identity, m.inverse().inverse() is m, and a * m * m.inverse() is a, each
\* within the comparison tolerance
C25_InverseRoundTrip ==
    sample.fn = "inverse" /\ ~sample.panic =>
        /\ MatrixAbsDiffEq(sample.product, Identity)
        /\ ~sample.twice.panic /\ MatrixAbsDiffEq(sample.twice.m, sample.m)
        /\ MatrixAbsDiffEq(sample.amm, sample.a)

\* translations, whose cofactors and determinant are computed without
\* rounding, do make the round trip
InverseOfTranslation ==
    sample.fn = "inverse" /\ ~sample.panic /\ IsTranslation(sample.m)
        => /\ MatrixAbsDiffEq(sample.product, Identity)
           /\ ~sample.twice.panic /\ MatrixAbsDiffEq(sample.twice.m, sample.m)
           /\ MatrixAbsDiffEq(sample.amm, sample.a)

----------------------------------------------------------------------------
(* Canvas: write_pixel, scale_to_ppm_data and to_ppm *)

\* Canvas::write_pixel: indexing past the buffer panics
WritePixel(canvas, x, y, color) ==
    IF BufferIndex(canvas, x, y) >= Len(canvas.pixels)
    THEN [panic |-> TRUE, canvas |-> canvas]
    ELSE [panic |-> FALSE,
          canvas |-> [canvas EXCEPT !.pixels[BufferIndex(canvas, x, y) + 1] = color]]

\* a canvas of width * height pixels, each of a color of its own
Numbered(width, height) == Canvas(width, height, [i \in 1..(width * height) |-> i])

\* the color that is written, which no pixel of a numbered canvas has
Marker == WHITE

\* canvas.write_pixel(x, y, color), on a canvas with x <= width and y <= height
WritePixelCall ==
    /\ sample = None
    /\ \E width, height \in 1..MaxSide :
        \E x \in 0..width, y \in 0..height :
            sample' = [fn |-> "write_pixel", before |-> Numbered(width, height),
                       x |-> x, y |-> y,
                       after |-> WritePixel(Numbered(width, height), x, y, Marker)]
    /\ UNCHANGED <<world, stack, ret, top, result, done, calls, xs, probe, shadow>>
    /\ UNCHANGED <<scene, render, solve>>

PPM_MAX_COLOR_VALUE == 255

PPM_MAX_LINE_LEN == 70

\* a variant of scale_to_ppm_data that cuts the fraction off
ScaleTruncates(color_scale) ==
    IF color_scale = NaN THEN 0
    ELSE IF color_scale <= 0 THEN 0
    ELSE IF color_scale >= Scale THEN PPM_MAX_COLOR_VALUE
    ELSE (color_scale * PPM_MAX_COLOR_VALUE) \div Scale

\* Canvas::scale_to_ppm_data: (color_scale * 255).clamp(0, 255).round() as u8;
\* clamp keeps NaN, which the cast turns into 0; round is half away from zero
ScaleToPpmData(color_scale) ==
    IF color_scale = NaN THEN 0
    ELSE IF color_scale <= 0 THEN 0
    ELSE IF color_scale >= Scale THEN PPM_MAX_COLOR_VALUE
    ELSE RDiv(color_scale * PPM_MAX_COLOR_VALUE, Scale)

ScaleInputs == (-20..(Scale + 20)) \cup {NaN, Infinity, -Infinity}

\* Canvas::scale_to_ppm_data(color_scale)
ScaleCall ==
    /\ sample = None
    /\ \E color_scale \in ScaleInputs :
        sample' = [fn |-> "scale_to_ppm_data", color_scale |-> color_scale,
                   value |-> ScaleToPpmData(color_scale)]
    /\ UNCHANGED <<world, stack, ret, top, result, done, calls, xs, probe, shadow>>
    /\ UNCHANGED <<scene, render, solve>>

DigitChars == <<"0", "1", "2", "3", "4", "5", "6", "7", "8", "9">>

RECURSIVE DecimalString(_)
\* to_string of an unsigned integer, as a sequence of characters
DecimalString(n) ==
    IF n < 10 THEN <<DigitChars[n + 1]>>
    ELSE DecimalString(n \div 10) \o <<DigitChars[(n % 10) + 1]>>

\* Color::new(red, green, blue)
Rgb(red, green, blue) == [red |-> red, green |-> green, blue |-> blue]

RECURSIVE ColorStrings(_)
\* to_ppm, step 1: the scaled red, green and blue of every pixel of a row
ColorStrings(row) ==
    IF row = <<>> THEN <<>>
    ELSE <<DecimalString(ScaleToPpmData(row[1].red)),
           DecimalString(ScaleToPpmData(row[1].green)),
           DecimalString(ScaleToPpmData(row[1].blue))>> \o ColorStrings(Tail(row))

\* to_ppm, step 2, the line after one color string: sep is chosen before the
\* line is flushed, and its length is added to line_len after it
LineAfter(line, color) ==
    IF line = <<>> THEN color ELSE line \o <<" ">> \o color

\* a variant of the added length that leaves the separator out
AdditionLenOfColor(line_len, color) == Len(color)

\* the length added for one color string: sep.len() + color_len
AdditionLen(line_len, color) == (IF line_len = 0 THEN 0 ELSE 1) + Len(color)

RECURSIVE WriteLines(_, _, _, _, _)
\* to_ppm, step 2, over the color strings from k on, and the rest of the line
\* pushed at the end of the row
WriteLines(ppm, line, line_len, colors, k) ==
    IF k > Len(colors)
    THEN (IF line # <<>> THEN ppm \o line \o <<"\n">> ELSE ppm)
    ELSE IF line_len + AdditionLen(line_len, colors[k]) > PPM_MAX_LINE_LEN
    THEN WriteLines(ppm \o line \o <<"\n">>, colors[k],
                    AdditionLen(line_len, colors[k]), colors, k + 1)
    ELSE WriteLines(ppm, LineAfter(line, colors[k]),
                    line_len + AdditionLen(line_len, colors[k]), colors, k + 1)

RECURSIVE WriteRows(_, _, _)
\* to_ppm: the loop over pixels.chunks(width), from the pixel after done
WriteRows(ppm, canvas, start) ==
    IF start > Len(canvas.pixels) THEN ppm
    ELSE WriteRows(
           WriteLines(ppm, <<>>, 0,
                      ColorStrings(SubSeq(canvas.pixels, start,
                          IF start + canvas.width - 1 > Len(canvas.pixels)
                          THEN Len(canvas.pixels) ELSE start + canvas.width - 1)),
                      1),
           canvas, start + canvas.width)

\* Canvas::to_ppm: chunks(0) panics
ToPpm(canvas) ==
    IF canvas.width = 0 THEN [panic |-> TRUE, ppm |-> <<>>]
    ELSE [panic |-> FALSE,
          ppm |-> WriteRows(<<"P", "3", "\n">> \o DecimalString(canvas.width) \o <<" ">>
                                \o DecimalString(canvas.height) \o <<"\n">>
                                \o DecimalString(PPM_MAX_COLOR_VALUE) \o <<"\n">>,
                            canvas, 1)]

\* the colors of the canvases that are printed: values of 3, 3 and 3 digits, of
\* 3, 1 and 2, and of 1, 1 and 1
Palette ==
    <<Rgb(Scale, 80, 60), Rgb(150, 2, 20), Rgb(-50, NaN, 0)>>

Run(color, n) == [i \in 1..n |-> color]

\* buffers of up to three runs of pixels
PpmBuffers ==
    {Run(Palette[c[1]], n[1]) \o Run(Palette[c[2]], n[2]) \o Run(Palette[c[3]], n[3]) :
        c \in {<<1, 2, 3>>, <<1, 2, 1>>, <<2, 1, 3>>, <<3, 1, 2>>, <<3, 2, 1>>, <<2, 3, 2>>},
        n \in (0..MaxRun) \X (0..MaxRun) \X (0..MaxRun)}

\* the widths of a canvas with the given number of pixels: Canvas::empty(w, h)
\* has w * h pixels
Widths(len) == {w \in 0..len : w = 0 \/ len % w = 0}

\* canvas.to_ppm()
ToPpmCall ==
    /\ sample = None
    /\ \E pixels \in PpmBuffers :
        \E width \in Widths(Len(pixels)) :
            LET canvas == Canvas(width, IF width = 0 THEN 0 ELSE Len(pixels) \div width,
                                 pixels)
            IN  sample' = [fn |-> "to_ppm", canvas |-> canvas, value |-> ToPpm(canvas)]
    /\ UNCHANGED <<world, stack, ret, top, result, done, calls, xs, probe, shadow>>
    /\ UNCHANGED <<scene, render, solve>>

NextCanvas ==
    \/ WritePixelCall
    \/ ScaleCall
    \/ ToPpmCall
    \/ SampleDrop

SpecCanvas == InitSample /\ [][NextCanvas]_vars

(* Properties of SpecCanvas *)

Written == sample.fn = "write_pixel" /\ ~sample.after.panic

InBounds(canvas, x, y) == x < canvas.width /\ y < canvas.height

Coordinates(canvas) == (0..(canvas.width - 1)) \X (0..(canvas.height - 1))

\* C28: after write_pixel(x, y, c) with x < w and y < h, pixel_at(x, y) is c
\* and every other in-bounds pixel is what it was; every in-bounds coordinate
\* has a slot of the buffer, and two distinct ones never the same
C28_WritePixel ==
    sample.fn = "write_pixel" /\ InBounds(sample.before, sample.x, sample.y) =>
        /\ \A p \in Coordinates(sample.before) :
            BufferIndex(sample.before, p[1], p[2]) \in 0..(Len(sample.before.pixels) - 1)
        /\ ~sample.after.panic
        /\ PixelAt(sample.after.canvas, sample.x, sample.y) = Marker
        /\ \A p \in Coordinates(sample.before) :
            p # <<sample.x, sample.y>> =>
                PixelAt(sample.after.canvas, p[1], p[2]) = PixelAt(sample.before, p[1], p[2])
        /\ \A p, q \in Coordinates(sample.before) :
            p # q => BufferIndex(sample.before, p[1], p[2]) # BufferIndex(sample.before, q[1], q[2])

\* a pixel in the last column of a row that is not the last, of a canvas wider
\* than high, has been written
C28_Witness ==
    /\ Written
    /\ sample.before.width > sample.before.height
    /\ sample.x = sample.before.width - 1
    /\ sample.y = sample.before.height - 2
    /\ PixelAt(sample.after.canvas, sample.x, sample.y) = Marker

\* a column past the width addresses the first pixel of the next row
OutOfBoundsAliases ==
    /\ Written
    /\ sample.x = sample.before.width
    /\ PixelAt(sample.after.canvas, 0, sample.y + 1) = Marker

Scaled == sample.fn = "scale_to_ppm_data"

\* value is the integer nearest to x * 255, the greater of two equally near
Rounded(x, value) ==
    /\ 2 * Abs(value * Scale - x * PPM_MAX_COLOR_VALUE) <= Scale
    /\ 2 * (x * PPM_MAX_COLOR_VALUE - value * Scale) # Scale

Printed == sample.fn = "to_ppm" /\ ~sample.value.panic

IsDigit(ch) == \E d \in 1..10 : DigitChars[d] = ch

DigitOf(ch) == (CHOOSE d \in 1..10 : DigitChars[d] = ch) - 1

\* the length of the three header lines of the text
HeaderLen(canvas) ==
    3 + Len(DecimalString(canvas.width)) + 1 + Len(DecimalString(canvas.height)) + 1
      + Len(DecimalString(PPM_MAX_COLOR_VALUE)) + 1

\* the positions in the data where a number starts
NumberStarts(text, from) ==
    {i \in (from + 1)..Len(text) : IsDigit(text[i]) /\ ~IsDigit(text[i - 1])}

RECURSIVE NumberAt(_, _, _)
\* the number whose digits start at position i, after the digits read so far
NumberAt(text, i, read) ==
    IF i > Len(text) \/ ~IsDigit(text[i]) THEN read
    ELSE NumberAt(text, i + 1, 10 * read + DigitOf(text[i]))

\* C27: scale_to_ppm_data maps every channel value to an integer in 0..255:
\* values <= 0 give 0, values >= 1 give 255, a value in between gives
\* round(value * 255); and every number in the data of to_ppm is in 0..255
C27_ScaleToPpmData ==
    /\ Scaled =>
        /\ sample.value \in 0..PPM_MAX_COLOR_VALUE
        /\ FLe(sample.color_scale, 0) => sample.value = 0
        /\ FLe(Scale, sample.color_scale) => sample.value = PPM_MAX_COLOR_VALUE
        /\ FGt(sample.color_scale, 0) /\ FGt(Scale, sample.color_scale) =>
            Rounded(sample.color_scale, sample.value)
    /\ Printed =>
        \A i \in NumberStarts(sample.value.ppm, HeaderLen(sample.canvas)) :
            NumberAt(sample.value.ppm, i, 0) \in 0..PPM_MAX_COLOR_VALUE

\* a value in between whose product with 255 lies half way between two
\* integers has been rounded up
C27_Witness ==
    /\ Scaled
    /\ sample.color_scale = 50
    /\ sample.value = 128

\* the positions of the line ends of the text
Newlines(text) == {i \in 1..Len(text) : text[i] = "\n"}

\* the positions after the header where a line starts
DataLineStarts(text, from) ==
    {i \in (from + 1)..Len(text) : text[i - 1] = "\n"}

\* the length of the line that starts at position i
LineLen(text, i) ==
    (CHOOSE e \in Newlines(text) : e >= i /\ \A f \in Newlines(text) : f >= i => e <= f) - i

RECURSIVE Joined(_, _)
\* the color strings from k on, each followed by one separator
Joined(colors, k) ==
    IF k > Len(colors) THEN <<>> ELSE colors[k] \o <<" ">> \o Joined(colors, k + 1)

\* the data of the text with every line end replaced by a space
DataOnOneLine(text, from) ==
    [i \in 1..(Len(text) - from) |-> IF text[from + i] = "\n" THEN " " ELSE text[from + i]]

\* the position in the text of the first value of the row that starts with
\* pixel number start of the buffer
RowStart(canvas, start) ==
    HeaderLen(canvas) + 1 + Len(Joined(ColorStrings(SubSeq(canvas.pixels, 1, start - 1)), 1))

RowStarts(canvas) ==
    {RowStart(canvas, 1 + r * canvas.width) : r \in 0..(canvas.height - 1)}

\* C26: in the text of to_ppm no data line is longer than 70 characters, no
\* color value is split across two lines (the data, line ends read as spaces,
\* are the color values in buffer order, one space after each), and each
\* canvas row starts on a new line
C26_PpmLines ==
    Printed =>
        /\ \A i \in DataLineStarts(sample.value.ppm, HeaderLen(sample.canvas)) :
            LineLen(sample.value.ppm, i) <= PPM_MAX_LINE_LEN
        /\ DataOnOneLine(sample.value.ppm, HeaderLen(sample.canvas))
             = Joined(ColorStrings(sample.canvas.pixels), 1)
        /\ \A i \in RowStarts(sample.canvas) : sample.value.ppm[i - 1] = "\n"

\* a canvas of several rows has been printed, one row of it on more than one
\* line, the first of 70 characters
C26_Witness ==
    /\ Printed
    /\ sample.canvas.height > 1
    /\ \E i \in DataLineStarts(sample.value.ppm, HeaderLen(sample.canvas)) :
        /\ LineLen(sample.value.ppm, i) = PPM_MAX_LINE_LEN
        /\ i \in RowStarts(sample.canvas)
        /\ i + PPM_MAX_LINE_LEN + 1 \notin RowStarts(sample.canvas)
        /\ i + PPM_MAX_LINE_LEN + 1 <= Len(sample.value.ppm)

----------------------------------------------------------------------------
(* Properties of Spec: the depth budget of color_at *)

\* a call of color_at from outside has returned a color
ColorAtReturned ==
    /\ Idle
    /\ top.fn = "color_at"
    /\ result.set /\ ~result.panic
    /\ done.fn = "color_at"

\* the surface colors of the hit of ray in the world: Material::shade at the
\* hit, with the shadow test at its over_point
LocalColors(w, ray) ==
    {SurfaceColor(w, PrepareComputations(w.objects, out.list, Hit(out.list), ray),
                  sout).color :
        out \in {o \in WorldIntersections(w.objects, ray) :
                    ~o.panic /\ Hit(o.list) # 0},
        sout \in {so \in UNION {WorldIntersections(w.objects,
                        ShadowRay(w.light,
                            PrepareComputations(w.objects, o.list, Hit(o.list),
                                                ray).over_point)) :
                        o \in {o \in WorldIntersections(w.objects, ray) :
                                  ~o.panic /\ Hit(o.list) # 0}} : ~so.panic}}

\* C29: a budget of 0 or less disables only the recursive contributions:
\* shade_hit then has black reflected and refracted colors and returns the
\* surface color of Material::shade with the shadow test applied, and
\* color_at of a ray that has a hit returns that color; such a call panics
\* only in the intersections of its own ray, before it has a hit
C29_BudgetZeroIsLocal ==
    /\ done.fn = "shade_hit" /\ done.remaining <= 0 =>
        /\ done.reflected_color = BLACK
        /\ done.refracted_color = BLACK
        /\ done.surface_color =
             Shade(MaterialOf(done.comps), done.comps.point, world.light,
                   done.comps.eye_vector, done.comps.normal_vector, done.in_shadow)
        /\ shadow.point = done.comps.over_point
        /\ shadow.value = done.in_shadow
        /\ done.value = done.surface_color
    /\ ColorAtReturned /\ top.remaining <= 0 /\ done.hit = 1 =>
        /\ result.val = done.value
        /\ result.val \in LocalColors(world, top.ray)
        /\ calls.color_at = 1
    /\ result.set /\ result.panic /\ top.fn = "color_at" /\ top.remaining <= 0 =>
        probe.ray = top.ray

\* color_at with budget 0 has returned a color other than black for a hit on
\* a shape that reflects and that light reaches
C29_Witness ==
    /\ ColorAtReturned
    /\ top.remaining = 0
    /\ done.hit = 1
    /\ result.val # BLACK
    /\ ~shadow.value
    /\ \E k \in DOMAIN world.objects : world.objects[k].material.reflective > 0

RECURSIVE Pow2(_)
Pow2(n) == IF n = 0 THEN 1 ELSE 2 * Pow2(n - 1)

\* the frames of reflected_color and refracted_color
Bounces == {"reflected_color", "refracted_color"}

\* C30: one call color_at(ray, d) from outside with d >= 0 causes at most
\* 2^(d+1) - 1 invocations of color_at, and each invocation, nested ones
\* included, at most 2^(remaining+1) - 1; reflected_color and refracted_color
\* each issue at most one call, with the budget reduced by one, and the shadow
\* test none
C30_CallsBounded ==
    /\ top.fn = "color_at" /\ top.remaining >= 0 =>
        calls.color_at <= Pow2(top.remaining + 1) - 1
    /\ done.fn = "color_at" /\ done.remaining >= 0 =>
        done.calls1.color_at - done.calls0.color_at + 1 <= Pow2(done.remaining + 1) - 1
    /\ done.fn \in Bounces =>
        done.issued = <<>> \/ done.issued = <<done.remaining - 1>>
    /\ \A k \in DOMAIN stack :
        stack[k].fn \in Bounces =>
            stack[k].issued = <<>> \/ stack[k].issued = <<stack[k].remaining - 1>>
    /\ top.fn = "is_shadowed" => calls.color_at = 0
    /\ (~Idle /\ Top.fn = "reflected_color" /\ Top.pc = "start") =>
        /\ stack[Len(stack) - 2].fn = "color_at"
        /\ calls.color_at = stack[Len(stack) - 2].calls0.color_at
        /\ calls.is_shadowed = stack[Len(stack) - 2].calls0.is_shadowed + 1

\* a call with budget 1 has returned after three invocations of color_at, one
\* for the reflection and one for the refraction of its hit
C30_Witness ==
    /\ ColorAtReturned
    /\ top.remaining = 1
    /\ calls.color_at = 3

====
